---- MODULE Spec2Model ----
(***************************************************************************)
(* A model of redshow's trace-analysis engine (src/src/redshow.cpp): the   *)
(* cubin registry, the memory-snapshot registry, the per-kernel trace      *)
(* accumulators, redshow_analyze / trace_analyze, analysis_begin / end and *)
(* redshow_flush.  Every API call is one atomic action.                    *)
(***************************************************************************)
EXTENDS Integers, Sequences, FiniteSets, TLC

\* ---------------------------------------------------------------- bounds

\* host_op_id values are 0 .. MaxHostOp (uint64_t in the source)
MaxHostOp == 2
\* device addresses are 0 .. MaxAddr
MaxAddr == 3
\* at most MaxSnapshots keys are ever held in memory_snapshot
MaxSnapshots == 3
\* CPU threads are 1 .. NumThreads
NumThreads == 2
\* cubin ids are 1 .. MaxCubin
MaxCubin == 2
\* the counts held by one kernel's accumulators sum to at most MaxCount
MaxCount == 2
\* at most MaxSymbols symbol pcs are handed to cubin_register
MaxSymbols == 2
\* symbol pcs are 1 .. MaxPc
MaxPc == 2

\* ------------------------------------------------------ program constants

\* redshow.cpp:135-138
MEMORY_ID_SHARED == 1
MEMORY_ID_LOCAL == 2
\* GPU_PATCH_WARP_SIZE (gpu-patch), used at redshow.cpp:298, 331, 335
GPU_PATCH_WARP_SIZE == 32
\* utils.h
VALID_FLOAT_DIGITS == 23
VALID_DOUBLE_DIGITS == 52

HostOps == 0 .. MaxHostOp
Threads == 1 .. NumThreads
CubinIds == 1 .. MaxCubin

Max(S) == CHOOSE x \in S : \A y \in S : y <= x
Min(S) == CHOOSE x \in S : \A y \in S : x <= y
MIN2(x, y) == IF x > y THEN y ELSE x

\* a std::map as a function on the set of its keys
EmptyMap == [x \in {} |-> 0]
MapPut(f, k, v) == [x \in (DOMAIN f) \cup {k} |-> IF x = k THEN v ELSE f[x]]
MapErase(f, k) == [x \in (DOMAIN f) \ {k} |-> f[x]]

VARIABLES
  cubin_map,            \* cubin_id -> Cubin
  cubin_cache_map,      \* cubin_id -> CubinCache
  memory_snapshot,      \* host_op_id -> MemoryMap
  kernel_map,           \* cpu thread -> kernel_id -> Kernel
  analysis_enabled,     \* set of enabled analysis types
  log_data_callback,    \* TRUE when a log callback is registered
  record_data_callback, \* TRUE when a record-data callback is registered
  mini_host_op_id,      \* per OS thread (__thread)
  decimal_degree_f32,
  decimal_degree_f64,
  session_ops,          \* history: host_op_ids of the successful analyze calls since
                        \* the last analysis_begin
  in_flight,            \* cpu thread -> the redshow_analyze call it is inside
  last                  \* the API call that produced this state, with its result

vars == <<cubin_map, cubin_cache_map, memory_snapshot, kernel_map, analysis_enabled,
          log_data_callback, record_data_callback, mini_host_op_id,
          decimal_degree_f32, decimal_degree_f64, session_ops, in_flight, last>>

\* ------------------------------------------------- memory snapshot registry

\* struct Memory with its MemoryRange key flattened in
Memory(start, end, memory_op_id, memory_id) ==
  [start |-> start, end |-> end, memory_op_id |-> memory_op_id, memory_id |-> memory_id]

\* MemoryMap::find(MemoryRange(start, end)): MemoryRange::operator< compares
\* start only, so two ranges with the same start are the same key
MemoryMapFind(memory_map, start) == {m \in memory_map : m.start = start}

\* MemoryMap::upper_bound(MemoryRange(addr, addr)) followed by --iter: the
\* entries at or below addr; the one with the greatest start is *iter
MemoryMapAtOrBelow(memory_map, addr) == {m \in memory_map : m.start <= addr}

MemoryMapPrev(memory_map, addr) ==
  CHOOSE m \in MemoryMapAtOrBelow(memory_map, addr) :
    \A o \in MemoryMapAtOrBelow(memory_map, addr) : o.start <= m.start

\* memory_snapshot.upper_bound(host_op_id) followed by --iter
SnapshotKeysAtOrBelow(snapshot, host_op_id) == {k \in DOMAIN snapshot : k <= host_op_id}

SnapshotPrev(snapshot, host_op_id) == Max(SnapshotKeysAtOrBelow(snapshot, host_op_id))

\* redshow_memory_register with the "no snapshot at or below host_op_id" branch
\* creating a first snapshot instead of rejecting the call
memory_register_creating_base(snapshot, start, end, host_op_id, memory_id) ==
  LET entry == Memory(start, end, host_op_id, memory_id) IN
  IF SnapshotKeysAtOrBelow(snapshot, host_op_id) # {}
  THEN LET memory_map == snapshot[SnapshotPrev(snapshot, host_op_id)] IN
       IF MemoryMapFind(memory_map, start) = {}
       THEN [result |-> "SUCCESS",
             memory_snapshot |-> MapPut(snapshot, host_op_id, memory_map \cup {entry})]
       ELSE [result |-> "DUPLICATE_ENTRY", memory_snapshot |-> snapshot]
  ELSE [result |-> "SUCCESS", memory_snapshot |-> MapPut(snapshot, host_op_id, {entry})]

redshow_memory_register(snapshot, start, end, host_op_id, memory_id) ==
  LET entry == Memory(start, end, host_op_id, memory_id) IN
  IF DOMAIN snapshot = {}
  THEN [result |-> "SUCCESS", memory_snapshot |-> MapPut(snapshot, host_op_id, {entry})]
  ELSE IF SnapshotKeysAtOrBelow(snapshot, host_op_id) # {}
  THEN LET memory_map == snapshot[SnapshotPrev(snapshot, host_op_id)] IN
       IF MemoryMapFind(memory_map, start) = {}
       THEN [result |-> "SUCCESS",
             memory_snapshot |-> MapPut(snapshot, host_op_id, memory_map \cup {entry})]
       ELSE [result |-> "DUPLICATE_ENTRY", memory_snapshot |-> snapshot]
  ELSE [result |-> "NOT_EXIST_ENTRY", memory_snapshot |-> snapshot]

redshow_memory_unregister(snapshot, start, end, host_op_id) ==
  IF SnapshotKeysAtOrBelow(snapshot, host_op_id) # {}
  THEN LET memory_map == snapshot[SnapshotPrev(snapshot, host_op_id)] IN
       IF MemoryMapFind(memory_map, start) # {}
       THEN [result |-> "SUCCESS",
             memory_snapshot |->
               MapPut(snapshot, host_op_id, memory_map \ MemoryMapFind(memory_map, start))]
       ELSE [result |-> "NOT_EXIST_ENTRY", memory_snapshot |-> snapshot]
  ELSE [result |-> "NOT_EXIST_ENTRY", memory_snapshot |-> snapshot]

\* redshow_analysis_end on the calling thread's mini_host_op_id
redshow_analysis_end(snapshot, mini) ==
  IF mini # 0
  THEN LET ids == {k \in DOMAIN snapshot : k < mini}
           max_min_host_op_id == IF ids = {} THEN 0 ELSE Max(ids)
           erased == {id \in ids : id # max_min_host_op_id}
       IN [result |-> "SUCCESS",
           memory_snapshot |-> [k \in (DOMAIN snapshot) \ erased |-> snapshot[k]]]
  ELSE [result |-> "FAILED_ANALYZE_CUBIN", memory_snapshot |-> snapshot]

\* ------------------------------------------------------------ cubin registry

Symbol(index, cubin_offset, pc) == [index |-> index, cubin_offset |-> cubin_offset, pc |-> pc]

AccessKind(unit_size, vec_size, type) ==
  [unit_size |-> unit_size, vec_size |-> vec_size, type |-> type]

\* A cubin path, reduced to what cubin_analyze reads from it: whether it holds
\* a "/", and the state of <dir>/structs/nvidia/<name>.inst on disk
Paths == {[slash |-> FALSE, inst |-> "missing"], [slash |-> TRUE, inst |-> "missing"],
          [slash |-> TRUE, inst |-> "bad"], [slash |-> TRUE, inst |-> "good"]}

\* the instruction graph a well-formed .inst file describes: cubin offset ->
\* the access kind load_data_type / store_data_type infer for that instruction
InstFileGraph ==
  (0 :> AccessKind(32, 32, "INTEGER")) @@ (1 :> AccessKind(0, 0, "UNKNOWN"))

\* parse_instructions: fills (index, cubin_offset) of every symbol and the
\* graph; pc is left for the registry to fill
parse_instructions(path, symbols) ==
  [ok |-> path.inst = "good",
   symbols |-> [i \in DOMAIN symbols |-> Symbol(i - 1, i - 1, symbols[i].pc)],
   inst_graph |-> InstFileGraph]

cubin_analyze(path, symbols) ==
  IF ~path.slash
  THEN [result |-> "NO_SUCH_FILE", symbols |-> symbols, inst_graph |-> EmptyMap]
  ELSE IF path.inst = "missing"
  THEN [result |-> "NO_SUCH_FILE", symbols |-> symbols, inst_graph |-> EmptyMap]
  ELSE LET parsed == parse_instructions(path, symbols) IN
       IF parsed.ok
       THEN [result |-> "SUCCESS", symbols |-> parsed.symbols,
             inst_graph |-> parsed.inst_graph]
       ELSE [result |-> "FAILED_ANALYZE_CUBIN", symbols |-> symbols,
             inst_graph |-> EmptyMap]

IsSortedByPc(symbols) ==
  \A i \in DOMAIN symbols : \A j \in DOMAIN symbols : i < j => symbols[i].pc <= symbols[j].pc

\* std::sort(symbols.begin(), symbols.end()): every ordering of the elements
\* that Symbol::operator< accepts (the order of equal pcs is unspecified)
SortOutcomes(symbols) ==
  {s \in {[i \in DOMAIN symbols |-> symbols[p[i]]] : p \in Permutations(DOMAIN symbols)} :
     IsSortedByPc(s)}

Cubin(cubin_id, path, symbols, inst_graph) ==
  [cubin_id |-> cubin_id, path |-> path, symbols |-> symbols, inst_graph |-> inst_graph]

\* redshow_cubin_register inserting the cubin only when cubin_analyze succeeded
cubin_register_on_success_only(cmap, cubin_id, symbol_pcs, path) ==
  LET nsymbols == Len(symbol_pcs)
      analyzed == cubin_analyze(path, [i \in 1 .. nsymbols |-> Symbol(0, 0, 0)])
  IN IF analyzed.result = "SUCCESS"
     THEN LET assigned == [i \in 1 .. nsymbols |->
                             Symbol(analyzed.symbols[i].index,
                                    analyzed.symbols[i].cubin_offset, symbol_pcs[i])]
          IN IF cubin_id \notin DOMAIN cmap
             THEN {[result |-> analyzed.result,
                    cubin_map |-> MapPut(cmap, cubin_id,
                                         Cubin(cubin_id, path, sorted, analyzed.inst_graph))] :
                     sorted \in SortOutcomes(assigned)}
             ELSE {[result |-> "DUPLICATE_ENTRY", cubin_map |-> cmap]}
     ELSE {[result |-> analyzed.result, cubin_map |-> cmap]}

\* redshow_cubin_register: the set of outcomes, one per ordering std::sort may pick
redshow_cubin_register(cmap, cubin_id, symbol_pcs, path) ==
  LET nsymbols == Len(symbol_pcs)
      analyzed == cubin_analyze(path, [i \in 1 .. nsymbols |-> Symbol(0, 0, 0)])
  IN IF analyzed.result \in {"SUCCESS", "NO_SUCH_FILE"}
     THEN LET assigned == [i \in 1 .. nsymbols |->
                             Symbol(analyzed.symbols[i].index,
                                    analyzed.symbols[i].cubin_offset, symbol_pcs[i])]
          IN IF cubin_id \notin DOMAIN cmap
             THEN {[result |-> analyzed.result,
                    cubin_map |-> MapPut(cmap, cubin_id,
                                         Cubin(cubin_id, path, sorted, analyzed.inst_graph))] :
                     sorted \in SortOutcomes(assigned)}
             ELSE {[result |-> "DUPLICATE_ENTRY", cubin_map |-> cmap]}
     ELSE {[result |-> analyzed.result, cubin_map |-> cmap]}

CubinCache(cubin_id, symbol_pcs, path) ==
  [cubin_id |-> cubin_id, nsymbols |-> Len(symbol_pcs), symbol_pcs |-> symbol_pcs,
   path |-> path]

redshow_cubin_cache_register(cache, cubin_id, symbol_pcs, path) ==
  IF cubin_id \notin DOMAIN cache
  THEN [result |-> "SUCCESS",
        cubin_cache_map |-> MapPut(cache, cubin_id, CubinCache(cubin_id, symbol_pcs, path))]
  ELSE [result |-> "DUPLICATE_ENTRY", cubin_cache_map |-> cache]

\* redshow_cubin_unregister erasing the whole active map
cubin_unregister_clearing(cmap, cubin_id) ==
  IF cubin_id \in DOMAIN cmap
  THEN [result |-> "SUCCESS", cubin_map |-> EmptyMap]
  ELSE [result |-> "NOT_EXIST_ENTRY", cubin_map |-> cmap]

redshow_cubin_unregister(cmap, cubin_id) ==
  IF cubin_id \in DOMAIN cmap
  THEN [result |-> "SUCCESS", cubin_map |-> MapErase(cmap, cubin_id)]
  ELSE [result |-> "NOT_EXIST_ENTRY", cubin_map |-> cmap]

\* transform_pc taking the first symbol at or below pc instead of the last
transform_pc_first_symbol(symbols, pc) ==
  LET below == {i \in DOMAIN symbols : symbols[i].pc <= pc} IN
  IF below # {}
  THEN LET s == symbols[Min(below)] IN
       [result |-> "SUCCESS", function_index |-> s.index,
        cubin_offset |-> (pc - s.pc) + s.cubin_offset, pc_offset |-> pc - s.pc]
  ELSE [result |-> "NOT_EXIST_ENTRY", function_index |-> 0, cubin_offset |-> 0,
        pc_offset |-> 0]

\* std::upper_bound(symbols, Symbol(pc)) on the sorted list, then --iter
transform_pc(symbols, pc) ==
  LET below == {i \in DOMAIN symbols : symbols[i].pc <= pc} IN
  IF below # {}
  THEN LET s == symbols[Max(below)] IN
       [result |-> "SUCCESS", function_index |-> s.index,
        cubin_offset |-> (pc - s.pc) + s.cubin_offset, pc_offset |-> pc - s.pc]
  ELSE [result |-> "NOT_EXIST_ENTRY", function_index |-> 0, cubin_offset |-> 0,
        pc_offset |-> 0]

\* ------------------------------------------------- per-kernel accumulators

\* struct Kernel as redshow_analyze's operator[] default-constructs it
\* (kernel_id is the map key)
Kernel(cubin_id) ==
  [cubin_id |-> cubin_id,
   read_spatial_trace |-> EmptyMap, write_spatial_trace |-> EmptyMap,
   read_temporal_trace |-> EmptyMap, read_pc_pairs |-> EmptyMap,
   write_temporal_trace |-> EmptyMap, write_pc_pairs |-> EmptyMap]

Increment(counts, key) ==
  IF key \in DOMAIN counts THEN [counts EXCEPT ![key] = @ + 1] ELSE MapPut(counts, key, 1)

RECURSIVE SumCounts(_)
SumCounts(counts) ==
  IF DOMAIN counts = {} THEN 0
  ELSE LET k == CHOOSE x \in DOMAIN counts : TRUE IN counts[k] + SumCounts(MapErase(counts, k))

\* get_spatial_trace marking the value as seen instead of counting it
get_spatial_trace_of_seen(pc, value, memory_op_id, type, spatial_trace) ==
  MapPut(spatial_trace, <<memory_op_id, type, pc, value>>, 1)

\* get_spatial_trace: spatial_trace[(memory_op_id, type)][pc][value] += 1
get_spatial_trace(pc, value, memory_op_id, type, spatial_trace) ==
  Increment(spatial_trace, <<memory_op_id, type, pc, value>>)

\* get_temporal_trace: remember (pc, value) as the thread's last touch of addr;
\* when there was an earlier touch, count the pair (its pc, pc)
get_temporal_trace(pc, tid, addr, value, type, temporal_trace, pc_pairs) ==
  LET touched == IF tid \in DOMAIN temporal_trace THEN temporal_trace[tid] ELSE EmptyMap
      updated == MapPut(temporal_trace, tid, MapPut(touched, addr, <<pc, value>>))
  IN IF addr \in DOMAIN touched
     THEN [temporal_trace |-> updated,
           pc_pairs |-> Increment(pc_pairs, <<touched[addr][1], pc, value, type>>)]
     ELSE [temporal_trace |-> updated, pc_pairs |-> pc_pairs]

\* store2basictype shifting the low mantissa bits out instead of clearing them
store2basictype_of_shift(value, kind, dd32, dd64) ==
  IF kind.type = "FLOAT" /\ kind.unit_size = 32
  THEN value \div (2 ^ (VALID_FLOAT_DIGITS - dd32))
  ELSE IF kind.type = "FLOAT" /\ kind.unit_size = 64
  THEN value \div (2 ^ (VALID_DOUBLE_DIGITS - dd64))
  ELSE value

\* store2basictype: clear the low mantissa bits of a float, the identity otherwise
store2basictype(value, kind, dd32, dd64) ==
  IF kind.type = "FLOAT" /\ kind.unit_size = 32
  THEN value - (value % (2 ^ (VALID_FLOAT_DIGITS - dd32)))
  ELSE IF kind.type = "FLOAT" /\ kind.unit_size = 64
  THEN value - (value % (2 ^ (VALID_DOUBLE_DIGITS - dd64)))
  ELSE value

\* ------------------------------------------------------------ trace_analyze

\* memcpy(&value, &record->value[j][m * byte_size], byte_size), little endian
RECURSIVE LittleEndian(_, _, _)
LittleEndian(bytes, first, n) ==
  IF n = 0 THEN 0
  ELSE (IF first + 1 \in DOMAIN bytes THEN bytes[first + 1] ELSE 0)
       + 256 * LittleEndian(bytes, first + 1, n - 1)

\* redshow.cpp:343-360: the memory_op_id of the lane's address, 0 when unmatched
LookupMemoryOpId(memory_map, address) ==
  IF MemoryMapAtOrBelow(memory_map, address) # {}
  THEN MemoryMapPrev(memory_map, address).memory_op_id
  ELSE 0

ResolveMemoryOpId(memory_map, address, flags) ==
  LET memory_op_id == LookupMemoryOpId(memory_map, address) IN
  IF memory_op_id = 0
  THEN IF "LOCAL" \in flags THEN MEMORY_ID_LOCAL
       ELSE IF "SHARED" \in flags THEN MEMORY_ID_SHARED
       ELSE 0
  ELSE memory_op_id

\* load_data_type / store_data_type on the node at cubin_offset
InferredAccessType(record, inst_graph, cubin_offset) ==
  IF DOMAIN inst_graph # {} /\ (record.flags \cap {"READ", "WRITE"}) # {}
  THEN inst_graph[cubin_offset]
  ELSE AccessKind(0, 0, "UNKNOWN")

\* redshow.cpp:313-332
AccessTypeOf(record, inst_graph, cubin_offset) ==
  LET access_type == InferredAccessType(record, inst_graph, cubin_offset) IN
  IF access_type.type = "UNKNOWN"
  THEN AccessKind(MIN2(GPU_PATCH_WARP_SIZE, (record.size * 8) * 8), record.size * 8, "FLOAT")
  ELSE access_type

LaneThreadId(record, j) ==
  <<record.flat_block_id,
    (record.flat_thread_id \div GPU_PATCH_WARP_SIZE) * GPU_PATCH_WARP_SIZE + j>>

\* redshow.cpp:371-396, one unit m of lane j
AnalyzeUnit(kernel, record, j, m, memory_op_id, unit_access_type, enabled, dd32, dd64) ==
  LET byte_size == unit_access_type.unit_size \div 8
      value == store2basictype(LittleEndian(record.value[j], m * byte_size, byte_size),
                               unit_access_type, dd32, dd64)
      read == "READ" \in record.flags
      k1 == IF "SPATIAL" \notin enabled THEN kernel
            ELSE IF read
            THEN [kernel EXCEPT !.read_spatial_trace =
                    get_spatial_trace(record.pc, value, memory_op_id,
                                      unit_access_type.type, @)]
            ELSE [kernel EXCEPT !.write_spatial_trace =
                    get_spatial_trace(record.pc, value, memory_op_id,
                                      unit_access_type.type, @)]
      rt == get_temporal_trace(record.pc, LaneThreadId(record, j), record.address[j], value,
                               unit_access_type.type, k1.read_temporal_trace, k1.read_pc_pairs)
      wt == get_temporal_trace(record.pc, LaneThreadId(record, j), record.address[j], value,
                               unit_access_type.type, k1.write_temporal_trace,
                               k1.write_pc_pairs)
  IN IF "TEMPORAL" \notin enabled THEN k1
     ELSE IF read
     THEN [k1 EXCEPT !.read_temporal_trace = rt.temporal_trace,
                     !.read_pc_pairs = rt.pc_pairs]
     ELSE [k1 EXCEPT !.write_temporal_trace = wt.temporal_trace,
                     !.write_pc_pairs = wt.pc_pairs]

RECURSIVE AnalyzeUnits(_, _, _, _, _, _, _, _, _, _)
AnalyzeUnits(kernel, record, j, m, num_units, memory_op_id, unit_type, enabled, dd32, dd64) ==
  IF m >= num_units THEN kernel
  ELSE AnalyzeUnits(AnalyzeUnit(kernel, record, j, m, memory_op_id, unit_type,
                                enabled, dd32, dd64),
                    record, j, m + 1, num_units, memory_op_id, unit_type, enabled,
                    dd32, dd64)

\* redshow.cpp:335-398, the lanes of one record in ascending order; st carries
\* the kernel and the accesses accepted so far
RECURSIVE AnalyzeLanes(_, _, _, _, _, _, _, _)
AnalyzeLanes(st, record, lanes, access_type, memory_map, enabled, dd32, dd64) ==
  IF lanes = {} THEN st
  ELSE LET j == Min(lanes)
           memory_op_id == ResolveMemoryOpId(memory_map, record.address[j], record.flags)
           unit_access_type == AccessKind(access_type.unit_size, access_type.unit_size,
                                          access_type.type)
           next ==
             IF memory_op_id = 0 THEN st
             ELSE [st EXCEPT
                     !.kernel = AnalyzeUnits(@, record, j, 0,
                                             access_type.vec_size \div access_type.unit_size,
                                             memory_op_id, unit_access_type, enabled,
                                             dd32, dd64),
                     !.accepted = @ \cup
                       {[address |-> record.address[j], memory_op_id |-> memory_op_id,
                         matched |-> LookupMemoryOpId(memory_map, record.address[j]) # 0,
                         flags |-> record.flags]}]
       IN AnalyzeLanes(next, record, lanes \ {j}, access_type, memory_map, enabled,
                       dd32, dd64)

\* redshow.cpp:296-305
RECURSIVE EraseThreads(_, _)
EraseThreads(temporal_trace, tids) ==
  IF tids = {} THEN temporal_trace
  ELSE LET t == CHOOSE x \in tids : TRUE IN
       EraseThreads(MapErase(temporal_trace, t), tids \ {t})

BlockExit(kernel, record) ==
  LET tids == {LaneThreadId(record, j) : j \in record.active} IN
  [kernel EXCEPT !.read_temporal_trace = EraseThreads(@, tids),
                 !.write_temporal_trace = EraseThreads(@, tids)]

\* redshow.cpp:285-400, one record; InstructionGraph::node(cubin_offset) is
\* _nodes.at(), which throws when the graph has no node at that offset
AnalyzeRecord(st, record, cubin, memory_map, enabled, dd32, dd64) ==
  IF record.size = 0 THEN st
  ELSE IF "BLOCK_ENTER" \in record.flags THEN st
  ELSE IF "BLOCK_EXIT" \in record.flags
  THEN [st EXCEPT !.kernel = BlockExit(@, record)]
  ELSE LET cubin_offset == transform_pc(cubin.symbols, record.pc).cubin_offset IN
       IF DOMAIN cubin.inst_graph # {} /\ cubin_offset \notin DOMAIN cubin.inst_graph
       THEN [st EXCEPT !.threw = TRUE]
       ELSE AnalyzeLanes(st, record, record.active,
                         AccessTypeOf(record, cubin.inst_graph, cubin_offset),
                         memory_map, enabled, dd32, dd64)

RECURSIVE AnalyzeRecords(_, _, _, _, _, _, _, _)
AnalyzeRecords(st, records, i, cubin, memory_map, enabled, dd32, dd64) ==
  IF i > Len(records) \/ st.threw THEN st
  ELSE AnalyzeRecords(AnalyzeRecord(st, records[i], cubin, memory_map, enabled, dd32, dd64),
                      records, i + 1, cubin, memory_map, enabled, dd32, dd64)

\* redshow.cpp:262-403: the snapshot is selected and the buffer analyzed
AnalyzeBuffer(cmap, cubin_id, snapshot, kernel, host_op_id, records, enabled, dd32, dd64) ==
  IF SnapshotKeysAtOrBelow(snapshot, host_op_id) = {}
  THEN [result |-> "NOT_EXIST_ENTRY", cubin_map |-> cmap, kernel |-> kernel,
        accepted |-> {}, processed |-> FALSE]
  ELSE LET st == AnalyzeRecords([kernel |-> kernel, accepted |-> {}, threw |-> FALSE],
                                records, 1, cmap[cubin_id],
                                snapshot[SnapshotPrev(snapshot, host_op_id)],
                                enabled, dd32, dd64)
       IN [result |-> IF st.threw THEN "EXCEPTION" ELSE "SUCCESS", cubin_map |-> cmap,
           kernel |-> st.kernel, accepted |-> st.accepted, processed |-> TRUE]

\* redshow.cpp:222-257: the cubin was not active at the first lookup; the
\* cached entry is registered through redshow_cubin_register, whatever the
\* active map holds by now, and the cubin fetched again
PromoteCubin(cmap, cache, cubin_id) ==
  IF cubin_id \notin DOMAIN cache
  THEN {[result |-> "NOT_EXIST_ENTRY", cubin_map |-> cmap]}
  ELSE {IF out.result = "SUCCESS" /\ cubin_id \notin DOMAIN out.cubin_map
        THEN [result |-> "NOT_EXIST_ENTRY", cubin_map |-> out.cubin_map]
        ELSE out :
          out \in redshow_cubin_register(cmap, cubin_id, cache[cubin_id].symbol_pcs,
                                         cache[cubin_id].path)}

\* redshow.cpp:212-260: the outcomes of resolving kernel.cubin_id, promoting a
\* cached cubin through redshow_cubin_register when it is not active
ResolveCubin(cmap, cache, cubin_id) ==
  IF cubin_id \in DOMAIN cmap
  THEN {[result |-> "SUCCESS", cubin_map |-> cmap]}
  ELSE PromoteCubin(cmap, cache, cubin_id)

\* trace_analyze: the set of outcomes
trace_analyze(cmap, cache, snapshot, kernel, host_op_id, records, enabled, dd32, dd64) ==
  {IF resolved.result # "SUCCESS"
   THEN [result |-> resolved.result, cubin_map |-> resolved.cubin_map, kernel |-> kernel,
         accepted |-> {}, processed |-> FALSE]
   ELSE AnalyzeBuffer(resolved.cubin_map, kernel.cubin_id, snapshot, kernel, host_op_id,
                      records, enabled, dd32, dd64) :
     resolved \in ResolveCubin(cmap, cache, kernel.cubin_id)}

\* redshow.cpp:639-648: kernel_map[thread_id][kernel_id] is created when
\* absent and its cubin_id overwritten, before trace_analyze runs
KernelOf(kmap, thread_id, kernel_id, cubin_id) ==
  IF thread_id \in DOMAIN kmap /\ kernel_id \in DOMAIN kmap[thread_id]
  THEN [kmap[thread_id][kernel_id] EXCEPT !.cubin_id = cubin_id]
  ELSE Kernel(cubin_id)

KernelMapPut(kmap, thread_id, kernel_id, kernel) ==
  MapPut(kmap, thread_id,
         MapPut(IF thread_id \in DOMAIN kmap THEN kmap[thread_id] ELSE EmptyMap,
                kernel_id, kernel))

\* redshow.cpp:651-662
AnalyzeResult(trace_result, callback) ==
  IF trace_result = "SUCCESS"
  THEN IF callback THEN "SUCCESS" ELSE "NOT_REGISTER_CALLBACK"
  ELSE trace_result

MiniHostOpId(mini, host_op_id) ==
  IF mini = 0 THEN host_op_id ELSE MIN2(mini, host_op_id)

KernelLoad(kernel) ==
  SumCounts(kernel.read_spatial_trace) + SumCounts(kernel.write_spatial_trace)
  + SumCounts(kernel.read_pc_pairs) + SumCounts(kernel.write_pc_pairs)

\* redshow_approx_level_config: REDSHOW_APPROX_NONE .. REDSHOW_APPROX_MAX are 0 .. 5
ApproxLevels ==
  (0 :> <<VALID_FLOAT_DIGITS, VALID_DOUBLE_DIGITS>>) @@ (1 :> <<20, 46>>) @@ (2 :> <<17, 40>>)
  @@ (3 :> <<14, 34>>) @@ (4 :> <<11, 28>>) @@ (5 :> <<8, 22>>)

\* a default-constructed Cubin, as cubin_map[cubin_id] inserts it
DefaultCubin == Cubin(0, [slash |-> FALSE, inst |-> "missing"], <<>>, EmptyMap)

\* redshow.cpp:730-736: flush reads cubin_map[cubin_id] of every kernel of the thread
RECURSIVE FlushCubins(_, _)
FlushCubins(cmap, cubin_ids) ==
  IF cubin_ids = {} THEN cmap
  ELSE LET c == CHOOSE x \in cubin_ids : TRUE IN
       FlushCubins(IF c \in DOMAIN cmap THEN cmap ELSE MapPut(cmap, c, DefaultCubin),
                   cubin_ids \ {c})

ThreadKernels(kmap, thread_id) == IF thread_id \in DOMAIN kmap THEN kmap[thread_id] ELSE EmptyMap

\* redshow.cpp:738-827: one record_data_callback per kernel, analysis and direction
FlushCallbacks(kernels, enabled) ==
  {<<kernels[k].cubin_id, k, analysis, access>> :
     k \in DOMAIN kernels, analysis \in enabled \cap {"SPATIAL", "TEMPORAL"},
     access \in {"READ", "WRITE"}}

\* -------------------------------------------------------------------- state

Init ==
  /\ cubin_map = EmptyMap
  /\ cubin_cache_map = EmptyMap
  /\ memory_snapshot = EmptyMap
  /\ kernel_map = EmptyMap
  /\ analysis_enabled = {}
  /\ log_data_callback = FALSE
  /\ record_data_callback = FALSE
  /\ mini_host_op_id = [t \in Threads |-> 0]
  /\ decimal_degree_f32 = VALID_FLOAT_DIGITS
  /\ decimal_degree_f64 = VALID_DOUBLE_DIGITS
  /\ session_ops = {}
  /\ in_flight = [t \in Threads |-> [at |-> "idle"]]
  /\ last = [op |-> "init", result |-> "SUCCESS"]

AnalysisEnable(type) ==
  /\ analysis_enabled' = analysis_enabled \cup {type}
  /\ last' = [op |-> "analysis_enable", result |-> "SUCCESS"]
  /\ UNCHANGED <<session_ops, in_flight>>
  /\ UNCHANGED <<cubin_map, cubin_cache_map, memory_snapshot, kernel_map, log_data_callback,
                 record_data_callback, mini_host_op_id, decimal_degree_f32,
                 decimal_degree_f64>>

AnalysisDisable(type) ==
  /\ analysis_enabled' = analysis_enabled \ {type}
  /\ last' = [op |-> "analysis_disable", result |-> "SUCCESS"]
  /\ UNCHANGED <<session_ops, in_flight>>
  /\ UNCHANGED <<cubin_map, cubin_cache_map, memory_snapshot, kernel_map, log_data_callback,
                 record_data_callback, mini_host_op_id, decimal_degree_f32,
                 decimal_degree_f64>>

ApproxLevelConfig(level) ==
  /\ decimal_degree_f32' = IF level \in DOMAIN ApproxLevels THEN ApproxLevels[level][1]
                           ELSE decimal_degree_f32
  /\ decimal_degree_f64' = IF level \in DOMAIN ApproxLevels THEN ApproxLevels[level][2]
                           ELSE decimal_degree_f64
  /\ last' = [op |-> "approx_level_config", level |-> level,
              result |-> IF level \in DOMAIN ApproxLevels THEN "SUCCESS"
                         ELSE "NO_SUCH_APPROX"]
  /\ UNCHANGED <<session_ops, in_flight>>
  /\ UNCHANGED <<cubin_map, cubin_cache_map, memory_snapshot, kernel_map, analysis_enabled,
                 log_data_callback, record_data_callback, mini_host_op_id>>

CubinRegister(cubin_id, symbol_pcs, path) ==
  \E out \in redshow_cubin_register(cubin_map, cubin_id, symbol_pcs, path) :
    /\ cubin_map' = out.cubin_map
    /\ last' = [op |-> "cubin_register", cubin_id |-> cubin_id, result |-> out.result]
    /\ UNCHANGED <<session_ops, in_flight>>
    /\ UNCHANGED <<cubin_cache_map, memory_snapshot, kernel_map, analysis_enabled,
                   log_data_callback, record_data_callback, mini_host_op_id,
                   decimal_degree_f32, decimal_degree_f64>>

CubinCacheRegister(cubin_id, symbol_pcs, path) ==
  LET out == redshow_cubin_cache_register(cubin_cache_map, cubin_id, symbol_pcs, path) IN
    /\ cubin_cache_map' = out.cubin_cache_map
    /\ last' = [op |-> "cubin_cache_register", cubin_id |-> cubin_id, result |-> out.result]
    /\ UNCHANGED <<session_ops, in_flight>>
    /\ UNCHANGED <<cubin_map, memory_snapshot, kernel_map, analysis_enabled,
                   log_data_callback, record_data_callback, mini_host_op_id,
                   decimal_degree_f32, decimal_degree_f64>>

CubinUnregister(cubin_id) ==
  LET out == redshow_cubin_unregister(cubin_map, cubin_id) IN
    /\ cubin_map' = out.cubin_map
    /\ last' = [op |-> "cubin_unregister", cubin_id |-> cubin_id, result |-> out.result]
    /\ UNCHANGED <<session_ops, in_flight>>
    /\ UNCHANGED <<cubin_cache_map, memory_snapshot, kernel_map, analysis_enabled,
                   log_data_callback, record_data_callback, mini_host_op_id,
                   decimal_degree_f32, decimal_degree_f64>>

MemoryRegister(start, end, host_op_id, memory_id) ==
  LET out == redshow_memory_register(memory_snapshot, start, end, host_op_id, memory_id) IN
    /\ Cardinality(DOMAIN out.memory_snapshot) <= MaxSnapshots
    /\ memory_snapshot' = out.memory_snapshot
    /\ last' = [op |-> "memory_register", result |-> out.result]
    /\ UNCHANGED <<session_ops, in_flight>>
    /\ UNCHANGED <<cubin_map, cubin_cache_map, kernel_map, analysis_enabled,
                   log_data_callback, record_data_callback, mini_host_op_id,
                   decimal_degree_f32, decimal_degree_f64>>

MemoryUnregister(start, end, host_op_id) ==
  LET out == redshow_memory_unregister(memory_snapshot, start, end, host_op_id) IN
    /\ Cardinality(DOMAIN out.memory_snapshot) <= MaxSnapshots
    /\ memory_snapshot' = out.memory_snapshot
    /\ last' = [op |-> "memory_unregister", result |-> out.result]
    /\ UNCHANGED <<session_ops, in_flight>>
    /\ UNCHANGED <<cubin_map, cubin_cache_map, kernel_map, analysis_enabled,
                   log_data_callback, record_data_callback, mini_host_op_id,
                   decimal_degree_f32, decimal_degree_f64>>

LogDataCallbackRegister ==
  /\ log_data_callback' = TRUE
  /\ last' = [op |-> "log_data_callback_register", result |-> "UNSPECIFIED"]
  /\ UNCHANGED <<session_ops, in_flight>>
  /\ UNCHANGED <<cubin_map, cubin_cache_map, memory_snapshot, kernel_map, analysis_enabled,
                 record_data_callback, mini_host_op_id, decimal_degree_f32,
                 decimal_degree_f64>>

RecordDataCallbackRegister ==
  /\ record_data_callback' = TRUE
  /\ last' = [op |-> "record_data_callback_register", result |-> "UNSPECIFIED"]
  /\ UNCHANGED <<session_ops, in_flight>>
  /\ UNCHANGED <<cubin_map, cubin_cache_map, memory_snapshot, kernel_map, analysis_enabled,
                 log_data_callback, mini_host_op_id, decimal_degree_f32, decimal_degree_f64>>

\* redshow_analyze called by CPU thread t with thread_id = t
Analyze(t, cubin_id, kernel_id, host_op_id, records) ==
  \E out \in trace_analyze(cubin_map, cubin_cache_map, memory_snapshot,
                           KernelOf(kernel_map, t, kernel_id, cubin_id), host_op_id,
                           records, analysis_enabled, decimal_degree_f32,
                           decimal_degree_f64) :
    /\ KernelLoad(out.kernel) <= MaxCount
    /\ cubin_map' = out.cubin_map
    /\ kernel_map' = KernelMapPut(kernel_map, t, kernel_id, out.kernel)
    /\ mini_host_op_id' =
         IF out.result = "SUCCESS" /\ log_data_callback
         THEN [mini_host_op_id EXCEPT ![t] = MiniHostOpId(@, host_op_id)]
         ELSE mini_host_op_id
    /\ session_ops' = IF out.result = "SUCCESS" /\ log_data_callback
                      THEN session_ops \cup {host_op_id} ELSE session_ops
    /\ UNCHANGED in_flight
    /\ last' = [op |-> "analyze", thread |-> t, cubin_id |-> cubin_id,
                kernel_id |-> kernel_id, host_op_id |-> host_op_id, records |-> records,
                accepted |-> out.accepted, processed |-> out.processed,
                result |-> AnalyzeResult(out.result, log_data_callback)]
    /\ UNCHANGED <<cubin_cache_map, memory_snapshot, analysis_enabled, log_data_callback,
                   record_data_callback, decimal_degree_f32, decimal_degree_f64>>

\* redshow_analyze taken step by step, a step per critical section, for the
\* calls of several CPU threads to interleave.
\* redshow.cpp:639-648 and 212-220: the kernel is created, the cubin looked up
AnalyzeEnter(t, cubin_id, kernel_id, host_op_id, records) ==
  /\ in_flight[t].at = "idle"
  /\ kernel_map' = KernelMapPut(kernel_map, t, kernel_id,
                                KernelOf(kernel_map, t, kernel_id, cubin_id))
  /\ in_flight' = [in_flight EXCEPT ![t] =
                     [at |-> IF cubin_id \in DOMAIN cubin_map THEN "select" ELSE "promote",
                      cubin_id |-> cubin_id, kernel_id |-> kernel_id,
                      host_op_id |-> host_op_id, records |-> records]]
  /\ last' = [op |-> "analyze_enter", thread |-> t, result |-> "SUCCESS"]
  /\ UNCHANGED <<cubin_map, cubin_cache_map, memory_snapshot, analysis_enabled,
                 log_data_callback, record_data_callback, mini_host_op_id,
                 decimal_degree_f32, decimal_degree_f64, session_ops>>

\* what redshow_analyze returns when trace_analyze returned before the record loop
AnalyzeReturn(t, result) ==
  [op |-> "analyze", thread |-> t, cubin_id |-> in_flight[t].cubin_id,
   kernel_id |-> in_flight[t].kernel_id, host_op_id |-> in_flight[t].host_op_id,
   records |-> in_flight[t].records, accepted |-> {}, processed |-> FALSE,
   result |-> result]

\* redshow.cpp:222-260: the promotion of the cached cubin
AnalyzePromote(t) ==
  /\ in_flight[t].at = "promote"
  /\ \E out \in PromoteCubin(cubin_map, cubin_cache_map, in_flight[t].cubin_id) :
       /\ cubin_map' = out.cubin_map
       /\ IF out.result = "SUCCESS"
          THEN /\ in_flight' = [in_flight EXCEPT ![t].at = "select"]
               /\ last' = [op |-> "analyze_promote", thread |-> t, result |-> "SUCCESS"]
          ELSE /\ in_flight' = [in_flight EXCEPT ![t] = [at |-> "idle"]]
               /\ last' = AnalyzeReturn(t, out.result)
  /\ UNCHANGED <<cubin_cache_map, memory_snapshot, kernel_map, analysis_enabled,
                 log_data_callback, record_data_callback, mini_host_op_id,
                 decimal_degree_f32, decimal_degree_f64, session_ops>>

\* redshow.cpp:262-277: the snapshot is selected under memory_snapshot_lock
\* and a pointer to it kept
AnalyzeSelect(t) ==
  /\ in_flight[t].at = "select"
  /\ IF SnapshotKeysAtOrBelow(memory_snapshot, in_flight[t].host_op_id) = {}
     THEN /\ in_flight' = [in_flight EXCEPT ![t] = [at |-> "idle"]]
          /\ last' = AnalyzeReturn(t, "NOT_EXIST_ENTRY")
     ELSE LET key == SnapshotPrev(memory_snapshot, in_flight[t].host_op_id) IN
          /\ in_flight' = [in_flight EXCEPT ![t] =
                             [at |-> "loop", cubin_id |-> in_flight[t].cubin_id,
                              kernel_id |-> in_flight[t].kernel_id,
                              host_op_id |-> in_flight[t].host_op_id,
                              records |-> in_flight[t].records,
                              snapshot_key |-> key, memory_map |-> memory_snapshot[key]]]
          /\ last' = [op |-> "analyze_select", thread |-> t, result |-> "SUCCESS"]
  /\ UNCHANGED <<cubin_map, cubin_cache_map, memory_snapshot, kernel_map, analysis_enabled,
                 log_data_callback, record_data_callback, mini_host_op_id,
                 decimal_degree_f32, decimal_degree_f64, session_ops>>

\* what the kept pointer reads: the map under the key, as it is now; once the
\* key is erased the pointer dangles and reads the freed map or anything else
BorrowedMemoryMaps(t) ==
  IF in_flight[t].snapshot_key \in DOMAIN memory_snapshot
  THEN {memory_snapshot[in_flight[t].snapshot_key]}
  ELSE {in_flight[t].memory_map, {}}

\* redshow.cpp:279-403 and 651-662: the record loop on the kept snapshot,
\* then the log callback
AnalyzeLoop(t) ==
  /\ in_flight[t].at = "loop"
  /\ in_flight[t].cubin_id \in DOMAIN cubin_map
  /\ \E memory_map \in BorrowedMemoryMaps(t) :
       LET st == AnalyzeRecords([kernel |-> kernel_map[t][in_flight[t].kernel_id],
                                 accepted |-> {}, threw |-> FALSE],
                                in_flight[t].records, 1, cubin_map[in_flight[t].cubin_id],
                                memory_map, analysis_enabled, decimal_degree_f32,
                                decimal_degree_f64)
           result == IF st.threw THEN "EXCEPTION" ELSE "SUCCESS"
       IN /\ KernelLoad(st.kernel) <= MaxCount
          /\ kernel_map' = KernelMapPut(kernel_map, t, in_flight[t].kernel_id, st.kernel)
          /\ mini_host_op_id' =
               IF result = "SUCCESS" /\ log_data_callback
               THEN [mini_host_op_id EXCEPT ![t] = MiniHostOpId(@, in_flight[t].host_op_id)]
               ELSE mini_host_op_id
          /\ session_ops' = IF result = "SUCCESS" /\ log_data_callback
                            THEN session_ops \cup {in_flight[t].host_op_id}
                            ELSE session_ops
          /\ last' = [AnalyzeReturn(t, AnalyzeResult(result, log_data_callback))
                        EXCEPT !.accepted = st.accepted, !.processed = TRUE]
  /\ in_flight' = [in_flight EXCEPT ![t] = [at |-> "idle"]]
  /\ UNCHANGED <<cubin_map, cubin_cache_map, memory_snapshot, analysis_enabled,
                 log_data_callback, record_data_callback, decimal_degree_f32,
                 decimal_degree_f64>>

AnalysisBegin(t) ==
  /\ mini_host_op_id' = [mini_host_op_id EXCEPT ![t] = 0]
  /\ session_ops' = {}
  /\ last' = [op |-> "analysis_begin", thread |-> t, result |-> "SUCCESS"]
  /\ UNCHANGED in_flight
  /\ UNCHANGED <<cubin_map, cubin_cache_map, memory_snapshot, kernel_map, analysis_enabled,
                 log_data_callback, record_data_callback, decimal_degree_f32,
                 decimal_degree_f64>>

AnalysisEnd(t) ==
  LET out == redshow_analysis_end(memory_snapshot, mini_host_op_id[t]) IN
    /\ memory_snapshot' = out.memory_snapshot
    /\ last' = [op |-> "analysis_end", thread |-> t, result |-> out.result]
    /\ UNCHANGED <<session_ops, in_flight>>
    /\ UNCHANGED <<cubin_map, cubin_cache_map, kernel_map, analysis_enabled,
                   log_data_callback, record_data_callback, mini_host_op_id,
                   decimal_degree_f32, decimal_degree_f64>>

\* Flush erasing the kernels of every thread
flush_of_all_threads(t) ==
  LET kernels == ThreadKernels(kernel_map, t)
      callbacks == FlushCallbacks(kernels, analysis_enabled)
  IN /\ (callbacks # {}) => record_data_callback
     /\ cubin_map' = FlushCubins(cubin_map, {kernels[k].cubin_id : k \in DOMAIN kernels})
     /\ kernel_map' = EmptyMap
     /\ last' = [op |-> "flush", thread |-> t, callbacks |-> callbacks,
                 result |-> "UNSPECIFIED"]
     /\ UNCHANGED <<session_ops, in_flight>>
     /\ UNCHANGED <<cubin_cache_map, memory_snapshot, analysis_enabled, log_data_callback,
                    record_data_callback, mini_host_op_id, decimal_degree_f32,
                    decimal_degree_f64>>

\* redshow_flush(thread_id); calling a null record_data_callback ends the
\* process, so the call has a successor state only when no callback is due or
\* one is registered
Flush(t) ==
  LET kernels == ThreadKernels(kernel_map, t)
      callbacks == FlushCallbacks(kernels, analysis_enabled)
  IN /\ (callbacks # {}) => record_data_callback
     /\ cubin_map' = FlushCubins(cubin_map, {kernels[k].cubin_id : k \in DOMAIN kernels})
     /\ kernel_map' = MapErase(kernel_map, t)
     /\ last' = [op |-> "flush", thread |-> t, callbacks |-> callbacks,
                 result |-> "UNSPECIFIED"]
     /\ UNCHANGED <<session_ops, in_flight>>
     /\ UNCHANGED <<cubin_cache_map, memory_snapshot, analysis_enabled, log_data_callback,
                    record_data_callback, mini_host_op_id, decimal_degree_f32,
                    decimal_degree_f64>>

\* trace_analyze's call transform_pc(*symbols, record->pc, ...) on the symbols
\* of an active cubin, taken alone
TransformPc(cubin_id, pc) ==
  /\ cubin_id \in DOMAIN cubin_map
  /\ LET out == transform_pc(cubin_map[cubin_id].symbols, pc) IN
       last' = [op |-> "transform_pc", cubin_id |-> cubin_id, pc |-> pc,
                result |-> out.result, function_index |-> out.function_index,
                cubin_offset |-> out.cubin_offset, pc_offset |-> out.pc_offset]
  /\ UNCHANGED <<session_ops, in_flight>>
  /\ UNCHANGED <<cubin_map, cubin_cache_map, memory_snapshot, kernel_map, analysis_enabled,
                 log_data_callback, record_data_callback, mini_host_op_id,
                 decimal_degree_f32, decimal_degree_f64>>

\* trace_analyze's call store2basictype(value, unit_access_type,
\* decimal_degree_f32, decimal_degree_f64) on one unit value, taken alone
Store2BasicType(value, kind) ==
  /\ last' = [op |-> "store2basictype", value |-> value, kind |-> kind,
              result |-> store2basictype(value, kind, decimal_degree_f32,
                                         decimal_degree_f64)]
  /\ UNCHANGED <<session_ops, in_flight>>
  /\ UNCHANGED <<cubin_map, cubin_cache_map, memory_snapshot, kernel_map, analysis_enabled,
                 log_data_callback, record_data_callback, mini_host_op_id,
                 decimal_degree_f32, decimal_degree_f64>>

\* ------------------------------------------------------------------- inputs

\* one gpu_patch_record_t whose active lanes are `active`
Record(pc, flat_block_id, flat_thread_id, active, size, flags, address, value) ==
  [pc |-> pc, flat_block_id |-> flat_block_id, flat_thread_id |-> flat_thread_id,
   active |-> active, size |-> size, flags |-> flags,
   address |-> [j \in active |-> address], value |-> [j \in active |-> value]]

MemoryIds == {42}
\* ranges handed to the registry: an empty one, two overlapping ones
Ranges == {<<1, 1>>, <<1, 3>>, <<2, 3>>}
RecordAddrs == 0 .. MaxAddr

\* 4-byte reads of lane 0, with and without the LOCAL / SHARED flags
MemRecords ==
  {Record(1, 0, 0, {0}, 4, flags, a, <<1, 0, 0, 0>>) :
     flags \in {{"READ"}, {"READ", "LOCAL"}, {"READ", "SHARED"}}, a \in RecordAddrs}

MemBuffers == {<<>>} \cup {<<r>> : r \in MemRecords}

\* ------------------------------------------- the memory-snapshot registry

\* register / unregister over Ranges and HostOps
NextMem ==
  \/ \E r \in Ranges, h \in HostOps, id \in MemoryIds : MemoryRegister(r[1], r[2], h, id)
  \/ \E r \in Ranges, h \in HostOps : MemoryUnregister(r[1], r[2], h)

SpecMem == Init /\ [][NextMem]_vars

\* ------------------------------------------------- analysis sessions

\* both threads analyze empty buffers of one cubin between analysis_begin and
\* analysis_end, over a history of snapshots of one range
NextSession ==
  \/ \E h \in HostOps, id \in MemoryIds : MemoryRegister(1, 3, h, id)
  \/ \E t \in Threads : AnalysisBegin(t)
  \/ \E t \in Threads : AnalysisEnd(t)
  \/ LogDataCallbackRegister
  \/ CubinRegister(1, <<1>>, [slash |-> TRUE, inst |-> "missing"])
  \/ \E t \in Threads, h \in HostOps : Analyze(t, 1, 1, h, <<>>)

SpecSession == Init /\ [][NextSession]_vars

\* ------------------------------------------------ snapshot selection

\* two adjacent ranges
SnapRanges == {<<1, 2>>, <<2, 3>>}

\* thread 1 analyzes one-record buffers of one cubin against the history
NextSnap ==
  \/ \E r \in SnapRanges, h \in HostOps, id \in MemoryIds :
       MemoryRegister(r[1], r[2], h, id)
  \/ LogDataCallbackRegister
  \/ AnalysisEnable("SPATIAL")
  \/ CubinRegister(1, <<1>>, [slash |-> TRUE, inst |-> "missing"])
  \/ \E h \in HostOps, records \in MemBuffers : Analyze(1, 1, 1, h, records)

SpecSnap == Init /\ [][NextSnap]_vars

\* ------------------------------------------------------- the cubin registry

\* symbol pcs handed to the registry: one symbol, two symbols out of order
CubinSymbolPcs == {<<1>>, <<2, 1>>}

\* an empty buffer and a buffer of one 4-byte read by lane 0
CubinBuffers == {<<>>, <<Record(1, 0, 0, {0}, 4, {"READ"}, 1, <<1, 0, 0, 0>>)>>}

\* the cubin that is registered lazily, through the cache
CachedIds == {1}

\* cubins are registered, cached, unregistered, analyzed by thread 1 against
\* one snapshot, and flushed
Next ==
  \/ \E id \in CubinIds, pcs \in CubinSymbolPcs, path \in Paths : CubinRegister(id, pcs, path)
  \/ \E id \in CachedIds, path \in Paths : CubinCacheRegister(id, <<1>>, path)
  \/ \E id \in CubinIds : CubinUnregister(id)
  \/ \E id \in MemoryIds : MemoryRegister(1, 3, 1, id)
  \/ LogDataCallbackRegister
  \/ \E id \in CubinIds, h \in 0 .. 1, records \in CubinBuffers : Analyze(1, id, 1, h, records)
  \/ Flush(1)

Spec == Init /\ [][Next]_vars

\* ------------------------------------------------------- the symbol table

Pcs == 1 .. MaxPc
\* every list of at most MaxSymbols symbol pcs, sorted or not, distinct or not
SymbolPcs == UNION {[1 .. n -> Pcs] : n \in 0 .. MaxSymbols}
\* the pcs looked up: below, at and above the symbol pcs
QueryPcs == 0 .. MaxPc + 1
\* the symbol pcs of cached cubins
CachedSymbolPcs == {<<1, 1>>, <<2, 1>>}

\* cubin 1 is registered, directly or through the cache by an analyze, and
\* unregistered, and pcs are looked up in its symbols
NextPc ==
  \/ \E pcs \in SymbolPcs, path \in Paths : CubinRegister(1, pcs, path)
  \/ \E pcs \in CachedSymbolPcs : CubinCacheRegister(1, pcs, [slash |-> TRUE, inst |-> "good"])
  \/ CubinUnregister(1)
  \/ Analyze(1, 1, 1, 0, <<>>)
  \/ \E pc \in QueryPcs : TransformPc(1, pc)

SpecPc == Init /\ [][NextPc]_vars

\* ------------------------------------------------------- trace accumulation

\* the 8 value bytes of a lane: two 4-byte units holding 1
UnitBytes == <<1, 0, 0, 0, 1, 0, 0, 0>>

\* an access of lanes `active` of the warp of flat thread 1 in block 0
Access(pc, active, size, flags, address) ==
  Record(pc, 0, 1, active, size, flags, address, UnitBytes)

\* a BLOCK_ENTER / BLOCK_EXIT record of lanes `active` of that warp
BlockRecord(active, size, flags) == Record(0, 0, 1, active, size, flags, 0, UnitBytes)

\* reads of lane 0 at address 1: one unit (4 bytes) or two units (8 bytes)
Reads ==
  {Access(1, {0}, size, {"READ"}, 1) : size \in {4, 8}} \cup {Access(2, {0}, 4, {"READ"}, 1)}

Writes == {Access(1, {0}, 4, {"WRITE"}, 1)}

\* block exits of lane 0, of lane 1, of both; one with size 0, which the
\* record loop skips, and one that also carries BLOCK_ENTER
BlockExits ==
  {BlockRecord(active, 4, {"BLOCK_EXIT"}) : active \in {{0}, {1}, {0, 1}}}
  \cup {BlockRecord({0}, 0, {"BLOCK_EXIT"}), BlockRecord({0}, 4, {"BLOCK_ENTER", "BLOCK_EXIT"})}

\* reads of lane 0 with and without the LOCAL / SHARED flags, at an address
\* below every range (0) and inside the range (1)
FlaggedReads ==
  {Access(1, {0}, 4, {"READ"} \cup f, 0) : f \in SUBSET {"LOCAL", "SHARED"}}
  \cup {Access(1, {0}, 4, {"READ", "LOCAL", "SHARED"}, 1)}

TraceBuffers ==
  {<<r>> : r \in Reads \cup Writes \cup BlockExits \cup FlaggedReads}
  \cup {<<Access(1, {1}, 4, {"READ"}, 1)>>, <<Access(1, {0, 1}, 4, {"READ"}, 1)>>}
  \cup {<<Access(1, {0}, 2, {"READ"}, 1)>>}
  \cup {<<a, b>> : a \in {r \in Reads : r.pc = 1}, b \in {r \in Reads : r.pc = 2}}
  \cup {<<a, x, b>> : a \in {r \in Reads : r.pc = 1},
                      x \in {r \in BlockExits : Cardinality(r.active) = 1},
                      b \in {r \in Reads : r.pc = 2}}

\* thread 1 analyzes buffers of kernel 1 of a cubin without instruction graph
\* against the snapshot {[1,3)} of host op 1, with either analysis enabled
NextTrace ==
  \/ CubinRegister(1, <<1>>, [slash |-> TRUE, inst |-> "missing"])
  \/ \E id \in MemoryIds : MemoryRegister(1, 3, 1, id)
  \/ \E type \in {"SPATIAL", "TEMPORAL"} : AnalysisEnable(type)
  \/ \E records \in TraceBuffers : Analyze(1, 1, 1, 1, records)

SpecTrace == Init /\ [][NextTrace]_vars

\* -------------------------------------------------------------------- flush

\* the kernels each thread launches: two of thread 1, one of thread 2
ThreadKernelIds == {<<1, 1>>, <<1, 2>>, <<2, 1>>}
FlushBuffers == {<<Access(1, {0}, 4, {"READ"}, 1)>>}

\* both threads analyze one-record buffers of their kernels and flush them
NextFlush ==
  \/ CubinRegister(1, <<1>>, [slash |-> TRUE, inst |-> "missing"])
  \/ \E id \in MemoryIds : MemoryRegister(1, 3, 1, id)
  \/ \E type \in {"SPATIAL", "TEMPORAL"} : AnalysisEnable(type)
  \/ RecordDataCallbackRegister
  \/ \E tk \in ThreadKernelIds, records \in FlushBuffers : Analyze(tk[1], 1, tk[2], 1, records)
  \/ \E t \in Threads : Flush(t)

SpecFlush == Init /\ [][NextFlush]_vars

\* --------------------------------------------------------- canonicalization

\* unit values with bits below, at and above every cut of the mantissa
UnitValues ==
  {0, 1, 7, 8, 2 ^ 12 - 1, 2 ^ 15 - 1, 2 ^ 15, 2 ^ 15 + 1, 2 ^ 23 + 2 ^ 14 + 5,
   2 ^ 30 - 1, 2 ^ 30, 2 ^ 30 + 2 ^ 29 + 3}

\* the unit access kinds: 32- and 64-bit floats, integers, unknown
UnitKinds ==
  {AccessKind(32, 32, "FLOAT"), AccessKind(64, 64, "FLOAT"), AccessKind(32, 32, "INTEGER"),
   AccessKind(64, 64, "INTEGER"), AccessKind(32, 32, "UNKNOWN")}

\* the levels REDSHOW_APPROX_NONE .. REDSHOW_APPROX_MAX and one that is none of them
Levels == 0 .. 6

\* the approximation level is configured and unit values are canonicalized
NextCanon ==
  \/ \E level \in Levels : ApproxLevelConfig(level)
  \/ \E value \in UnitValues, kind \in UnitKinds : Store2BasicType(value, kind)

SpecCanon == Init /\ [][NextCanon]_vars

\* ------------------------------------------------------ instruction graph

\* 4-byte reads of lane 0 at address 1 from pc 0 (below every symbol), pc 1
\* and pc 2 (nodes of the graph) and pc 3 (no node), alone and before a read
\* from pc 1
GraphReads == {Access(pc, {0}, 4, {"READ"}, 1) : pc \in 0 .. 3}
GraphBuffers == {<<r>> : r \in GraphReads} \cup {<<r, Access(1, {0}, 4, {"READ"}, 1)>> : r \in GraphReads}

\* thread 1 analyzes buffers of a cubin registered with a parsed .inst
NextGraph ==
  \/ CubinRegister(1, <<1>>, [slash |-> TRUE, inst |-> "good"])
  \/ \E id \in MemoryIds : MemoryRegister(1, 3, 1, id)
  \/ AnalysisEnable("SPATIAL")
  \/ LogDataCallbackRegister
  \/ \E records \in GraphBuffers : Analyze(1, 1, 1, 1, records)

SpecGraph == Init /\ [][NextGraph]_vars

\* ------------------------------------------- concurrent redshow_analyze calls

\* the snapshots published: [1,2) at host op 0, then [2,3) at host op 1
PublishedRanges == {<<1, 2, 0>>, <<2, 3, 1>>}

\* the host op each thread analyzes at
ThreadHostOps == {<<1, 0>>, <<2, 2>>}

\* both threads analyze an empty buffer of their kernel of cubin 1, which is
\* registered through the cache, while snapshots are published and pruned
NextConcurrent ==
  \/ CubinCacheRegister(1, <<1>>, [slash |-> TRUE, inst |-> "good"])
  \/ \E r \in PublishedRanges, id \in MemoryIds : MemoryRegister(r[1], r[2], r[3], id)
  \/ LogDataCallbackRegister
  \/ \E th \in ThreadHostOps : AnalyzeEnter(th[1], 1, th[1], th[2], <<>>)
  \/ \E t \in Threads : AnalyzePromote(t)
  \/ \E t \in Threads : AnalyzeSelect(t)
  \/ \E t \in Threads : AnalyzeLoop(t)
  \/ \E t \in Threads : AnalysisEnd(t)

SpecConcurrent == Init /\ [][NextConcurrent]_vars

\* ------------------------------------------------- the registry mutexes

\* every lock() of the API: the position "function:line" of the call -> the
\* mutex taken there
LockSites ==
  ("cubin_register:490" :> "cubin_map_lock")
  @@ ("cubin_cache_register:511" :> "cubin_cache_map_lock")
  @@ ("cubin_unregister:536" :> "cubin_map_lock")
  @@ ("memory_register:556" :> "memory_snapshot_lock")
  @@ ("memory_unregister:598" :> "memory_snapshot_lock")
  @@ ("analyze:639" :> "kernel_map_lock")
  @@ ("trace_analyze:212" :> "cubin_map_lock")
  @@ ("trace_analyze:228" :> "cubin_cache_map_lock")
  @@ ("trace_analyze:490" :> "cubin_map_lock")
  @@ ("trace_analyze:246" :> "cubin_map_lock")
  @@ ("trace_analyze:264" :> "memory_snapshot_lock")
  @@ ("analysis_end:689" :> "memory_snapshot_lock")
  @@ ("flush:720" :> "kernel_map_lock")
  @@ ("flush:836" :> "kernel_map_lock")

\* the mutexes CPU thread t holds
Held(t) == IF "holds" \in DOMAIN in_flight[t] THEN in_flight[t].holds ELSE {}

\* t is inside the critical section that the lock() at site opens
Inside(t, site) == in_flight[t].at = site /\ LockSites[site] \in Held(t)

\* a thread outside every call, with the mutexes it still holds
Idle(holds) == IF holds = {} THEN [at |-> "idle"] ELSE [at |-> "idle", holds |-> holds]

\* t enters an API call whose next lock() is at site
Entered(t, site, call) ==
  [in_flight EXCEPT ![t] = [at |-> site, holds |-> Held(t), call |-> call]]

\* trace_analyze keeping cubin_cache_map_lock across the promotion
unlock_after_promotion(t, site, at) ==
  IF site = "trace_analyze:228"
  THEN [in_flight EXCEPT ![t].at = at]
  ELSE [in_flight EXCEPT ![t].at = at, ![t].holds = @ \ {LockSites[site]}]

\* unlock() at the end of the critical section of site; the call goes on at
\* position at
Unlock(t, site, at) ==
  [in_flight EXCEPT ![t].at = at, ![t].holds = @ \ {LockSites[site]}]

\* unlock() at the end of the critical section of site, after which the call
\* returns
UnlockReturn(t, site) ==
  [in_flight EXCEPT ![t] = Idle(Held(t) \ {LockSites[site]})]

\* std::mutex::lock(): t blocks at its position until no thread holds the mutex
MutexLock(t) ==
  /\ in_flight[t].at \in DOMAIN LockSites
  /\ ~Inside(t, in_flight[t].at)
  /\ \A u \in Threads : LockSites[in_flight[t].at] \notin Held(u)
  /\ in_flight' = [in_flight EXCEPT ![t].holds = @ \cup {LockSites[in_flight[t].at]}]
  /\ UNCHANGED <<cubin_map, cubin_cache_map, memory_snapshot, kernel_map, analysis_enabled,
                 log_data_callback, record_data_callback, mini_host_op_id,
                 decimal_degree_f32, decimal_degree_f64, session_ops, last>>

\* the calls whose first step is a lock(): cubin_cache_register,
\* cubin_unregister, memory_register, memory_unregister, analyze, flush
ApiCall(t, site, call) ==
  /\ in_flight[t].at = "idle"
  /\ in_flight' = Entered(t, site, call)
  /\ UNCHANGED <<cubin_map, cubin_cache_map, memory_snapshot, kernel_map, analysis_enabled,
                 log_data_callback, record_data_callback, mini_host_op_id,
                 decimal_degree_f32, decimal_degree_f64, session_ops, last>>

\* redshow.cpp:471-489: cubin_analyze runs before the lock, which is taken
\* only for SUCCESS and NO_SUCH_FILE
CubinRegisterCall(t, cubin_id, symbol_pcs, path) ==
  LET analyzed == cubin_analyze(path, [i \in 1 .. Len(symbol_pcs) |-> Symbol(0, 0, 0)]) IN
  /\ in_flight[t].at = "idle"
  /\ IF analyzed.result \in {"SUCCESS", "NO_SUCH_FILE"}
     THEN /\ in_flight' = Entered(t, "cubin_register:490",
                                  [cubin_id |-> cubin_id, symbol_pcs |-> symbol_pcs,
                                   path |-> path])
          /\ UNCHANGED last
     ELSE /\ last' = [op |-> "cubin_register", cubin_id |-> cubin_id,
                      result |-> analyzed.result]
          /\ UNCHANGED in_flight
  /\ UNCHANGED <<cubin_map, cubin_cache_map, memory_snapshot, kernel_map, analysis_enabled,
                 log_data_callback, record_data_callback, mini_host_op_id,
                 decimal_degree_f32, decimal_degree_f64, session_ops>>

\* redshow.cpp:490-502
CubinRegisterSection(t) ==
  /\ Inside(t, "cubin_register:490")
  /\ \E out \in redshow_cubin_register(cubin_map, in_flight[t].call.cubin_id,
                                       in_flight[t].call.symbol_pcs, in_flight[t].call.path) :
       /\ cubin_map' = out.cubin_map
       /\ last' = [op |-> "cubin_register", cubin_id |-> in_flight[t].call.cubin_id,
                   result |-> out.result]
  /\ in_flight' = UnlockReturn(t, "cubin_register:490")
  /\ UNCHANGED <<cubin_cache_map, memory_snapshot, kernel_map, analysis_enabled,
                 log_data_callback, record_data_callback, mini_host_op_id,
                 decimal_degree_f32, decimal_degree_f64, session_ops>>

\* redshow.cpp:511-527
CubinCacheRegisterSection(t) ==
  /\ Inside(t, "cubin_cache_register:511")
  /\ LET out == redshow_cubin_cache_register(cubin_cache_map, in_flight[t].call.cubin_id,
                                             in_flight[t].call.symbol_pcs,
                                             in_flight[t].call.path)
     IN /\ cubin_cache_map' = out.cubin_cache_map
        /\ last' = [op |-> "cubin_cache_register", cubin_id |-> in_flight[t].call.cubin_id,
                    result |-> out.result]
  /\ in_flight' = UnlockReturn(t, "cubin_cache_register:511")
  /\ UNCHANGED <<cubin_map, memory_snapshot, kernel_map, analysis_enabled,
                 log_data_callback, record_data_callback, mini_host_op_id,
                 decimal_degree_f32, decimal_degree_f64, session_ops>>

\* redshow.cpp:536-545
CubinUnregisterSection(t) ==
  /\ Inside(t, "cubin_unregister:536")
  /\ LET out == redshow_cubin_unregister(cubin_map, in_flight[t].call.cubin_id)
     IN /\ cubin_map' = out.cubin_map
        /\ last' = [op |-> "cubin_unregister", cubin_id |-> in_flight[t].call.cubin_id,
                    result |-> out.result]
  /\ in_flight' = UnlockReturn(t, "cubin_unregister:536")
  /\ UNCHANGED <<cubin_cache_map, memory_snapshot, kernel_map, analysis_enabled,
                 log_data_callback, record_data_callback, mini_host_op_id,
                 decimal_degree_f32, decimal_degree_f64, session_ops>>

\* redshow.cpp:556-587
MemoryRegisterSection(t) ==
  /\ Inside(t, "memory_register:556")
  /\ LET out == redshow_memory_register(memory_snapshot, in_flight[t].call.start,
                                        in_flight[t].call.end, in_flight[t].call.host_op_id,
                                        in_flight[t].call.memory_id)
     IN /\ memory_snapshot' = out.memory_snapshot
        /\ last' = [op |-> "memory_register", result |-> out.result]
  /\ in_flight' = UnlockReturn(t, "memory_register:556")
  /\ UNCHANGED <<cubin_map, cubin_cache_map, kernel_map, analysis_enabled,
                 log_data_callback, record_data_callback, mini_host_op_id,
                 decimal_degree_f32, decimal_degree_f64, session_ops>>

\* redshow.cpp:598-617
MemoryUnregisterSection(t) ==
  /\ Inside(t, "memory_unregister:598")
  /\ LET out == redshow_memory_unregister(memory_snapshot, in_flight[t].call.start,
                                          in_flight[t].call.end,
                                          in_flight[t].call.host_op_id)
     IN /\ memory_snapshot' = out.memory_snapshot
        /\ last' = [op |-> "memory_unregister", result |-> out.result]
  /\ in_flight' = UnlockReturn(t, "memory_unregister:598")
  /\ UNCHANGED <<cubin_map, cubin_cache_map, kernel_map, analysis_enabled,
                 log_data_callback, record_data_callback, mini_host_op_id,
                 decimal_degree_f32, decimal_degree_f64, session_ops>>

\* how redshow_analyze returns: the result and, on success with the log
\* callback, the thread's mini_host_op_id (redshow.cpp:651-667)
AnalyzeReturns(t, result) ==
  /\ last' = [op |-> "analyze", thread |-> t, cubin_id |-> in_flight[t].call.cubin_id,
              kernel_id |-> in_flight[t].call.kernel_id,
              host_op_id |-> in_flight[t].call.host_op_id,
              records |-> in_flight[t].call.records, accepted |-> {},
              processed |-> result = "SUCCESS",
              result |-> AnalyzeResult(result, log_data_callback)]
  /\ mini_host_op_id' =
       IF result = "SUCCESS" /\ log_data_callback
       THEN [mini_host_op_id EXCEPT ![t] = MiniHostOpId(@, in_flight[t].call.host_op_id)]
       ELSE mini_host_op_id
  /\ session_ops' = IF result = "SUCCESS" /\ log_data_callback
                    THEN session_ops \cup {in_flight[t].call.host_op_id}
                    ELSE session_ops

\* redshow.cpp:639-648: the thread's kernel map under kernel_map_lock, then
\* the kernel entry
AnalyzeKernelSection(t) ==
  /\ Inside(t, "analyze:639")
  /\ kernel_map' = KernelMapPut(kernel_map, t, in_flight[t].call.kernel_id,
                                KernelOf(kernel_map, t, in_flight[t].call.kernel_id,
                                         in_flight[t].call.cubin_id))
  /\ in_flight' = Unlock(t, "analyze:639", "trace_analyze:212")
  /\ UNCHANGED <<cubin_map, cubin_cache_map, memory_snapshot, analysis_enabled,
                 log_data_callback, record_data_callback, mini_host_op_id,
                 decimal_degree_f32, decimal_degree_f64, session_ops, last>>

\* redshow.cpp:212-220: the first lookup of the cubin
AnalyzeCubinSection(t) ==
  /\ Inside(t, "trace_analyze:212")
  /\ in_flight' = Unlock(t, "trace_analyze:212",
                         IF in_flight[t].call.cubin_id \in DOMAIN cubin_map
                         THEN "trace_analyze:264" ELSE "trace_analyze:228")
  /\ UNCHANGED <<cubin_map, cubin_cache_map, memory_snapshot, kernel_map, analysis_enabled,
                 log_data_callback, record_data_callback, mini_host_op_id,
                 decimal_degree_f32, decimal_degree_f64, session_ops, last>>

\* redshow.cpp:228-242 and 471-489: the cache is read under
\* cubin_cache_map_lock; redshow_cubin_register then runs cubin_analyze and
\* goes for cubin_map_lock on SUCCESS and NO_SUCH_FILE
AnalyzeCacheSection(t) ==
  LET cubin_id == in_flight[t].call.cubin_id
      result ==
        IF cubin_id \notin DOMAIN cubin_cache_map THEN "NOT_EXIST_ENTRY"
        ELSE cubin_analyze(cubin_cache_map[cubin_id].path,
                           [i \in 1 .. cubin_cache_map[cubin_id].nsymbols |->
                              Symbol(0, 0, 0)]).result
  IN /\ Inside(t, "trace_analyze:228")
     /\ IF cubin_id \in DOMAIN cubin_cache_map /\ result \in {"SUCCESS", "NO_SUCH_FILE"}
        THEN /\ in_flight' = Unlock(t, "trace_analyze:228", "trace_analyze:490")
             /\ UNCHANGED <<mini_host_op_id, session_ops, last>>
        ELSE /\ in_flight' = UnlockReturn(t, "trace_analyze:228")
             /\ AnalyzeReturns(t, result)
     /\ UNCHANGED <<cubin_map, cubin_cache_map, memory_snapshot, kernel_map,
                    analysis_enabled, log_data_callback, record_data_callback,
                    decimal_degree_f32, decimal_degree_f64>>

\* redshow.cpp:490-499, called from trace_analyze at 240-242
AnalyzeRegisterSection(t) ==
  LET cubin_id == in_flight[t].call.cubin_id IN
  /\ Inside(t, "trace_analyze:490")
  /\ \E out \in redshow_cubin_register(cubin_map, cubin_id,
                                       cubin_cache_map[cubin_id].symbol_pcs,
                                       cubin_cache_map[cubin_id].path) :
       /\ cubin_map' = out.cubin_map
       /\ IF out.result = "SUCCESS"
          THEN /\ in_flight' = Unlock(t, "trace_analyze:490", "trace_analyze:246")
               /\ UNCHANGED <<mini_host_op_id, session_ops, last>>
          ELSE /\ in_flight' = UnlockReturn(t, "trace_analyze:490")
               /\ AnalyzeReturns(t, out.result)
  /\ UNCHANGED <<cubin_cache_map, memory_snapshot, kernel_map, analysis_enabled,
                 log_data_callback, record_data_callback, decimal_degree_f32,
                 decimal_degree_f64>>

\* redshow.cpp:244-260: the cubin is fetched again
AnalyzeRefetchSection(t) ==
  /\ Inside(t, "trace_analyze:246")
  /\ IF in_flight[t].call.cubin_id \in DOMAIN cubin_map
     THEN /\ in_flight' = Unlock(t, "trace_analyze:246", "trace_analyze:264")
          /\ UNCHANGED <<mini_host_op_id, session_ops, last>>
     ELSE /\ in_flight' = UnlockReturn(t, "trace_analyze:246")
          /\ AnalyzeReturns(t, "NOT_EXIST_ENTRY")
  /\ UNCHANGED <<cubin_map, cubin_cache_map, memory_snapshot, kernel_map, analysis_enabled,
                 log_data_callback, record_data_callback, decimal_degree_f32,
                 decimal_degree_f64>>

\* redshow.cpp:264-277: the snapshot is selected
AnalyzeSnapshotSection(t) ==
  /\ Inside(t, "trace_analyze:264")
  /\ IF SnapshotKeysAtOrBelow(memory_snapshot, in_flight[t].call.host_op_id) = {}
     THEN /\ in_flight' = UnlockReturn(t, "trace_analyze:264")
          /\ AnalyzeReturns(t, "NOT_EXIST_ENTRY")
     ELSE /\ in_flight' = Unlock(t, "trace_analyze:264", "trace_analyze:279")
          /\ UNCHANGED <<mini_host_op_id, session_ops, last>>
  /\ UNCHANGED <<cubin_map, cubin_cache_map, memory_snapshot, kernel_map, analysis_enabled,
                 log_data_callback, record_data_callback, decimal_degree_f32,
                 decimal_degree_f64>>

\* redshow.cpp:279-403 and 651-667: the record loop of an empty trace buffer
\* (head_index = 0), which takes no mutex and reads nothing, then the return
AnalyzeEmptyBuffer(t) ==
  /\ in_flight[t].at = "trace_analyze:279"
  /\ in_flight[t].call.records = <<>>
  /\ in_flight' = [in_flight EXCEPT ![t] = Idle(Held(t))]
  /\ AnalyzeReturns(t, "SUCCESS")
  /\ UNCHANGED <<cubin_map, cubin_cache_map, memory_snapshot, kernel_map, analysis_enabled,
                 log_data_callback, record_data_callback, decimal_degree_f32,
                 decimal_degree_f64>>

\* redshow.cpp:685-711: analysis_end takes memory_snapshot_lock only when the
\* thread's mini_host_op_id is set
AnalysisEndCall(t) ==
  /\ in_flight[t].at = "idle"
  /\ IF mini_host_op_id[t] # 0
     THEN /\ in_flight' = Entered(t, "analysis_end:689", [thread |-> t])
          /\ UNCHANGED last
     ELSE /\ last' = [op |-> "analysis_end", thread |-> t,
                      result |-> redshow_analysis_end(memory_snapshot,
                                                      mini_host_op_id[t]).result]
          /\ UNCHANGED in_flight
  /\ UNCHANGED <<cubin_map, cubin_cache_map, memory_snapshot, kernel_map, analysis_enabled,
                 log_data_callback, record_data_callback, mini_host_op_id,
                 decimal_degree_f32, decimal_degree_f64, session_ops>>

\* redshow.cpp:689-711
AnalysisEndSection(t) ==
  /\ Inside(t, "analysis_end:689")
  /\ LET out == redshow_analysis_end(memory_snapshot, mini_host_op_id[t])
     IN /\ memory_snapshot' = out.memory_snapshot
        /\ last' = [op |-> "analysis_end", thread |-> t, result |-> out.result]
  /\ in_flight' = UnlockReturn(t, "analysis_end:689")
  /\ UNCHANGED <<cubin_map, cubin_cache_map, kernel_map, analysis_enabled,
                 log_data_callback, record_data_callback, mini_host_op_id,
                 decimal_degree_f32, decimal_degree_f64, session_ops>>

\* redshow.cpp:720-724: kernel_map[thread_id] creates the thread's map when absent
FlushKernelSection(t) ==
  /\ Inside(t, "flush:720")
  /\ kernel_map' = MapPut(kernel_map, t, ThreadKernels(kernel_map, t))
  /\ in_flight' = Unlock(t, "flush:720", "flush:726")
  /\ UNCHANGED <<cubin_map, cubin_cache_map, memory_snapshot, analysis_enabled,
                 log_data_callback, record_data_callback, mini_host_op_id,
                 decimal_degree_f32, decimal_degree_f64, session_ops, last>>

\* redshow.cpp:726-833: the report of every kernel of the thread, under no
\* mutex; a callback that is due and not registered ends the process
FlushReport(t) ==
  LET kernels == ThreadKernels(kernel_map, t)
  IN /\ in_flight[t].at = "flush:726"
     /\ (FlushCallbacks(kernels, analysis_enabled) # {}) => record_data_callback
     /\ cubin_map' = FlushCubins(cubin_map, {kernels[k].cubin_id : k \in DOMAIN kernels})
     /\ in_flight' = [in_flight EXCEPT ![t].at = "flush:836"]
     /\ UNCHANGED <<cubin_cache_map, memory_snapshot, kernel_map, analysis_enabled,
                    log_data_callback, record_data_callback, mini_host_op_id,
                    decimal_degree_f32, decimal_degree_f64, session_ops, last>>

\* redshow.cpp:836-844
FlushEraseSection(t) ==
  /\ Inside(t, "flush:836")
  /\ kernel_map' = MapErase(kernel_map, t)
  /\ last' = [op |-> "flush", thread |-> t, result |-> "UNSPECIFIED"]
  /\ in_flight' = UnlockReturn(t, "flush:836")
  /\ UNCHANGED <<cubin_map, cubin_cache_map, memory_snapshot, analysis_enabled,
                 log_data_callback, record_data_callback, mini_host_op_id,
                 decimal_degree_f32, decimal_degree_f64, session_ops>>

\* ------------------------------------------- API calls at mutex granularity

GoodPath == [slash |-> TRUE, inst |-> "good"]

\* the paths cubin_register is called with: a readable and a malformed .inst
LockPaths == {GoodPath, [slash |-> TRUE, inst |-> "bad"]}

\* the calls that start with a lock(): <<thread, position, arguments>>.
\* Thread 1 analyzes empty trace buffers of kernel 1 of cubin 1 at host op 1
\* and flushes; thread 2 maintains the registries (cubin 1, the range [1,3))
\* and flushes: between them they contend for each of the four mutexes
LockCalls ==
  {<<1, "analyze:639", [cubin_id |-> 1, kernel_id |-> 1, host_op_id |-> 1, records |-> <<>>]>>,
   <<1, "flush:720", [thread_id |-> 1]>>,
   <<2, "cubin_cache_register:511", [cubin_id |-> 1, symbol_pcs |-> <<1>>, path |-> GoodPath]>>,
   <<2, "cubin_unregister:536", [cubin_id |-> 1]>>,
   <<2, "memory_register:556", [start |-> 1, end |-> 3, host_op_id |-> 0, memory_id |-> 42]>>,
   <<2, "memory_unregister:598", [start |-> 1, end |-> 3, host_op_id |-> MaxHostOp]>>,
   <<2, "flush:720", [thread_id |-> 2]>>}

NextLocks ==
  \/ LogDataCallbackRegister
  \/ \E c \in LockCalls : ApiCall(c[1], c[2], c[3])
  \/ \E path \in LockPaths : CubinRegisterCall(2, 1, <<1>>, path)
  \/ AnalysisEndCall(1)
  \/ \E t \in Threads : MutexLock(t)
  \/ \E t \in Threads : CubinRegisterSection(t)
  \/ \E t \in Threads : CubinCacheRegisterSection(t)
  \/ \E t \in Threads : CubinUnregisterSection(t)
  \/ \E t \in Threads : MemoryRegisterSection(t)
  \/ \E t \in Threads : MemoryUnregisterSection(t)
  \/ \E t \in Threads : AnalyzeKernelSection(t)
  \/ \E t \in Threads : AnalyzeCubinSection(t)
  \/ \E t \in Threads : AnalyzeCacheSection(t)
  \/ \E t \in Threads : AnalyzeRegisterSection(t)
  \/ \E t \in Threads : AnalyzeRefetchSection(t)
  \/ \E t \in Threads : AnalyzeSnapshotSection(t)
  \/ \E t \in Threads : AnalyzeEmptyBuffer(t)
  \/ \E t \in Threads : AnalysisEndSection(t)
  \/ \E t \in Threads : FlushKernelSection(t)
  \/ \E t \in Threads : FlushReport(t)
  \/ \E t \in Threads : FlushEraseSection(t)

\* the steps a thread takes inside a call once it has the mutex it asked for
CallStep(t) ==
  \/ CubinRegisterSection(t) \/ CubinCacheRegisterSection(t) \/ CubinUnregisterSection(t)
  \/ MemoryRegisterSection(t) \/ MemoryUnregisterSection(t)
  \/ AnalyzeKernelSection(t) \/ AnalyzeCubinSection(t) \/ AnalyzeCacheSection(t)
  \/ AnalyzeRegisterSection(t) \/ AnalyzeRefetchSection(t) \/ AnalyzeSnapshotSection(t)
  \/ AnalyzeEmptyBuffer(t) \/ AnalysisEndSection(t)
  \/ FlushKernelSection(t) \/ FlushReport(t) \/ FlushEraseSection(t)

SpecLocks == Init /\ [][NextLocks]_vars

\* every thread inside a call keeps running, and a thread waiting in lock()
\* gets the mutex when it is released again and again
SpecLocksLive ==
  SpecLocks /\ \A t \in Threads : WF_vars(CallStep(t)) /\ SF_vars(MutexLock(t))

\* ------------------------------------------------------------------ claims

\* the MemoryMap a call at host_op_id starts from: the snapshot with the
\* greatest key <= host_op_id, empty when there is none
BaseMap(snapshot, host_op_id) ==
  IF SnapshotKeysAtOrBelow(snapshot, host_op_id) = {} THEN {}
  ELSE snapshot[SnapshotPrev(snapshot, host_op_id)]

Covers(m, address) == m.start <= address /\ address < m.end

\* C1: every access the last analyze attributed to a registered allocation
\* used the memory_op_id of a range of the applicable snapshot that contains
\* the address
C1_AttributedRangeContainsAddress ==
  last.op = "analyze" =>
    \A acc \in last.accepted :
      acc.matched =>
        \E m \in BaseMap(memory_snapshot, last.host_op_id) :
          m.memory_op_id = acc.memory_op_id /\ Covers(m, acc.address)

\* address is covered by a range registered after host_op_id and by no range
\* registered at or before it
CoveredOnlyLater(snapshot, address, host_op_id) ==
  /\ \E k \in DOMAIN snapshot : \E m \in snapshot[k] :
       m.memory_op_id > host_op_id /\ Covers(m, address)
  /\ ~ \E k \in DOMAIN snapshot : \E m \in snapshot[k] :
         m.memory_op_id <= host_op_id /\ Covers(m, address)

\* C2: an analyze at host op H accepts no access, without LOCAL / SHARED flag,
\* to an address covered only by a range registered at a host op > H
C2_LaterRangeUnmatched ==
  last.op = "analyze" =>
    \A acc \in last.accepted :
      (acc.flags \cap {"LOCAL", "SHARED"}) = {} =>
        ~CoveredOnlyLater(memory_snapshot, acc.address, last.host_op_id)

\* C3: a successful memory_register(start,end,H,id) stores at key H the base
\* map plus the range with memory_op_id = H and memory_id = id; a successful
\* memory_unregister(start,end,H) stores at key H the base map minus the
\* range [start,end)
C3_SnapshotIsBasePlusMinusRange ==
  [][/\ \A r \in Ranges, h \in HostOps, id \in MemoryIds :
          MemoryRegister(r[1], r[2], h, id) /\ last'.result = "SUCCESS" =>
            /\ h \in DOMAIN memory_snapshot'
            /\ memory_snapshot'[h] =
                 BaseMap(memory_snapshot, h) \cup {Memory(r[1], r[2], h, id)}
     /\ \A r \in Ranges, h \in HostOps :
          MemoryUnregister(r[1], r[2], h) /\ last'.result = "SUCCESS" =>
            /\ h \in DOMAIN memory_snapshot'
            /\ memory_snapshot'[h] =
                 {m \in BaseMap(memory_snapshot, h) : ~(m.start = r[1] /\ m.end = r[2])}
    ]_vars

\* C4 as stated: memory_register with no snapshot at or below H succeeds and
\* creates a snapshot at H that holds only the new range
C4_RegisterWithoutBaseSucceeds ==
  [][\A r \in Ranges, h \in HostOps, id \in MemoryIds :
       MemoryRegister(r[1], r[2], h, id)
       /\ SnapshotKeysAtOrBelow(memory_snapshot, h) = {} =>
         /\ last'.result = "SUCCESS"
         /\ h \in DOMAIN memory_snapshot'
         /\ memory_snapshot'[h] = {Memory(r[1], r[2], h, id)}
    ]_vars

\* C4 amended: memory_register with no snapshot at or below H creates the
\* snapshot {new range} at H when the history is empty; when the history
\* holds only keys > H it returns NOT_EXIST_ENTRY and changes nothing
C4_RegisterWithoutBase ==
  [][\A r \in Ranges, h \in HostOps, id \in MemoryIds :
       MemoryRegister(r[1], r[2], h, id)
       /\ SnapshotKeysAtOrBelow(memory_snapshot, h) = {} =>
         IF DOMAIN memory_snapshot = {}
         THEN /\ last'.result = "SUCCESS"
              /\ DOMAIN memory_snapshot' = {h}
              /\ memory_snapshot'[h] = {Memory(r[1], r[2], h, id)}
         ELSE /\ last'.result = "NOT_EXIST_ENTRY"
              /\ memory_snapshot' = memory_snapshot
    ]_vars

\* a memory_register was rejected because the history holds only later keys
C4_Witness ==
  /\ last.op = "memory_register"
  /\ last.result = "NOT_EXIST_ENTRY"
  /\ DOMAIN memory_snapshot # {}
  /\ \E h \in HostOps : SnapshotKeysAtOrBelow(memory_snapshot, h) = {}

HoldsRange(memory_map, start, end) == \E m \in memory_map : m.start = start /\ m.end = end

\* C5: memory_register fails with DUPLICATE_ENTRY when the base snapshot holds
\* the same range; memory_unregister fails when the base snapshot does not
\* hold [start,end) (same start and same end); a failing call leaves the
\* history unchanged
C5_DuplicateAndAbsentRangesFail ==
  [][/\ \A r \in Ranges, h \in HostOps, id \in MemoryIds :
          MemoryRegister(r[1], r[2], h, id)
          /\ HoldsRange(BaseMap(memory_snapshot, h), r[1], r[2]) =>
            last'.result = "DUPLICATE_ENTRY"
     /\ \A r \in Ranges, h \in HostOps :
          MemoryUnregister(r[1], r[2], h)
          /\ ~HoldsRange(BaseMap(memory_snapshot, h), r[1], r[2]) =>
            last'.result # "SUCCESS"
     /\ (last'.op \in {"memory_register", "memory_unregister"}
         /\ last'.result # "SUCCESS") => memory_snapshot' = memory_snapshot
    ]_vars

\* C6: the ranges of every snapshot are pairwise non-overlapping
C6_RangesDisjoint ==
  \A k \in DOMAIN memory_snapshot :
    \A a \in memory_snapshot[k] : \A b \in memory_snapshot[k] :
      a # b => (a.end <= b.start \/ b.end <= a.start)

\* C7: memory_register with start = end fails and adds no snapshot, and every
\* stored range has start < end
C7_EmptyRangeRejected ==
  [][/\ \A r \in Ranges, h \in HostOps, id \in MemoryIds :
          MemoryRegister(r[1], r[2], h, id) /\ r[1] = r[2] =>
            last'.result # "SUCCESS" /\ memory_snapshot' = memory_snapshot
     /\ \A k \in DOMAIN memory_snapshot' : \A m \in memory_snapshot'[k] : m.start < m.end
    ]_vars

\* C8: with m the least host_op_id of the successful analyze calls since
\* analysis_begin, analysis_end returns SUCCESS and keeps exactly the keys
\* >= m and the greatest key < m; with no such call it returns
\* FAILED_ANALYZE_CUBIN and removes nothing
C8_AnalysisEndPrunesBelowMin ==
  [][\A t \in Threads :
       AnalysisEnd(t) =>
         IF session_ops # {}
         THEN LET m == Min(session_ops)
                  below == {k \in DOMAIN memory_snapshot : k < m}
              IN /\ last'.result = "SUCCESS"
                 /\ DOMAIN memory_snapshot' =
                      {k \in DOMAIN memory_snapshot : k >= m}
                      \cup (IF below = {} THEN {} ELSE {Max(below)})
         ELSE /\ last'.result = "FAILED_ANALYZE_CUBIN"
              /\ memory_snapshot' = memory_snapshot
    ]_vars

C10_CachedCubinPromoted ==
  [][\A id \in CubinIds, h \in 0 .. 1, records \in CubinBuffers :
       /\ Analyze(1, id, 1, h, records)
       /\ id \in DOMAIN cubin_cache_map
       /\ id \notin DOMAIN cubin_map
       /\ SnapshotKeysAtOrBelow(memory_snapshot, h) # {}
       /\ log_data_callback
       => /\ last'.result = "SUCCESS"
          /\ last'.processed
          /\ id \in DOMAIN cubin_map'
    ]_vars

\* C11: an analyze that cannot resolve its cubin_id (the id is not active
\* before the call and still not active after the promotion attempt)
\* processes no record and returns NOT_EXIST_ENTRY
C11_UnresolvedCubinIsNotExistEntry ==
  [][/\ last'.op = "analyze"
     /\ last'.cubin_id \notin DOMAIN cubin_map
     /\ last'.cubin_id \notin DOMAIN cubin_map'
     => /\ last'.result = "NOT_EXIST_ENTRY"
        /\ ~last'.processed
    ]_vars

\* C12: cubin_unregister(id) of an active id returns SUCCESS and removes
\* exactly the entry id from cubin_map; of an id that is not active it returns
\* NOT_EXIST_ENTRY and leaves cubin_map unchanged; in both cases
\* cubin_cache_map is unchanged
C12_UnregisterRemovesExactlyId ==
  [][\A id \in CubinIds :
       last'.op = "cubin_unregister" /\ last'.cubin_id = id /\ CubinUnregister(id) =>
         /\ cubin_cache_map' = cubin_cache_map
         /\ IF id \in DOMAIN cubin_map
            THEN /\ last'.result = "SUCCESS"
                 /\ DOMAIN cubin_map' = (DOMAIN cubin_map) \ {id}
                 /\ \A other \in DOMAIN cubin_map' : cubin_map'[other] = cubin_map[other]
            ELSE /\ last'.result = "NOT_EXIST_ENTRY"
                 /\ cubin_map' = cubin_map
    ]_vars

\* a cached and active cubin was unregistered while another cubin is active
C12_Witness ==
  /\ last.op = "cubin_unregister"
  /\ last.result = "SUCCESS"
  /\ last.cubin_id \notin DOMAIN cubin_map
  /\ last.cubin_id \in DOMAIN cubin_cache_map
  /\ DOMAIN cubin_map # {}

\* the symbols of the cubin the last transform_pc looked in
LastSymbols == cubin_map[last.cubin_id].symbols

\* symbols[i] is the symbol whose pc range [symbols[i].pc, symbols[i+1].pc)
\* holds pc (the last symbol's range is unbounded)
InSymbolRange(symbols, i, pc) ==
  /\ symbols[i].pc <= pc
  /\ i < Len(symbols) => pc < symbols[i + 1].pc

StrictlySorted(symbols) ==
  \A i \in DOMAIN symbols : \A j \in DOMAIN symbols : i < j => symbols[i].pc < symbols[j].pc

\* C13 as stated: on a strictly sorted symbol list,
\* transform_pc(symbols, symbol[i].pc + k) returns
\* (i, symbol[i].cubin_offset + k, k), i the place of the symbol in the list
\* counted from 0, and NOT_EXIST_ENTRY exactly when no symbol has pc <= the
\* queried pc
C13_RoundTripByPosition ==
  last.op = "transform_pc" /\ StrictlySorted(LastSymbols) =>
    /\ last.result = "NOT_EXIST_ENTRY" <=>
         ~ \E i \in DOMAIN LastSymbols : LastSymbols[i].pc <= last.pc
    /\ last.result \in {"SUCCESS", "NOT_EXIST_ENTRY"}
    /\ \A i \in DOMAIN LastSymbols :
         InSymbolRange(LastSymbols, i, last.pc) =>
           /\ last.result = "SUCCESS"
           /\ last.function_index = i - 1
           /\ last.pc_offset = last.pc - LastSymbols[i].pc
           /\ last.cubin_offset = last.pc_offset + LastSymbols[i].cubin_offset

\* C13 amended: transform_pc(symbols, symbol[i].pc + k) returns
\* (symbol[i].index, symbol[i].cubin_offset + k, k), the index being the one
\* the symbol carries, and NOT_EXIST_ENTRY exactly when no symbol has pc <=
\* the queried pc
C13_RoundTripBySymbolIndex ==
  last.op = "transform_pc" =>
    /\ last.result = "NOT_EXIST_ENTRY" <=>
         ~ \E i \in DOMAIN LastSymbols : LastSymbols[i].pc <= last.pc
    /\ last.result \in {"SUCCESS", "NOT_EXIST_ENTRY"}
    /\ \A i \in DOMAIN LastSymbols :
         InSymbolRange(LastSymbols, i, last.pc) =>
           /\ last.result = "SUCCESS"
           /\ last.function_index = LastSymbols[i].index
           /\ last.pc_offset = last.pc - LastSymbols[i].pc
           /\ last.cubin_offset = last.pc_offset + LastSymbols[i].cubin_offset

\* a pc beyond the second of two symbols was looked up, and that symbol
\* carries index 0 and a pc above the first symbol's
C13_Witness ==
  /\ last.op = "transform_pc"
  /\ last.result = "SUCCESS"
  /\ Len(LastSymbols) = 2
  /\ LastSymbols[1].pc < LastSymbols[2].pc
  /\ InSymbolRange(LastSymbols, 2, last.pc)
  /\ last.function_index = 0
  /\ last.pc_offset > 0

\* C14: the symbols of every active cubin are strictly increasing in pc
C14_SymbolsStrictlySorted ==
  \A id \in DOMAIN cubin_map : StrictlySorted(cubin_map[id].symbols)

\* the kernel an analyze step starts from and the kernel it leaves
KernelBefore == KernelOf(kernel_map, last'.thread, last'.kernel_id, last'.cubin_id)
KernelAfter == kernel_map'[last'.thread][last'.kernel_id]

\* the kernel of the last analyze
LastKernel == kernel_map[last.thread][last.kernel_id]

\* the ThreadIds of the active lanes of a record
Tids(record) ==
  {<<record.flat_block_id, (record.flat_thread_id \div 32) * 32 + j>> : j \in record.active}

Without(trace, tids) == [tid \in (DOMAIN trace) \ tids |-> trace[tid]]

\* the step erased exactly the threads of `record` from both temporal traces
ErasedExactly(record) ==
  /\ KernelAfter.read_temporal_trace = Without(KernelBefore.read_temporal_trace, Tids(record))
  /\ KernelAfter.write_temporal_trace = Without(KernelBefore.write_temporal_trace, Tids(record))
  /\ KernelAfter.read_pc_pairs = KernelBefore.read_pc_pairs
  /\ KernelAfter.write_pc_pairs = KernelBefore.write_pc_pairs
  /\ KernelAfter.read_spatial_trace = KernelBefore.read_spatial_trace
  /\ KernelAfter.write_spatial_trace = KernelBefore.write_spatial_trace

IsRead(record) ==
  record.size # 0 /\ "READ" \in record.flags
  /\ (record.flags \cap {"BLOCK_ENTER", "BLOCK_EXIT"}) = {}

\* a read, a BLOCK_EXIT record for the reading threads, a read of the same
\* address by the same threads
ExitBetweenReads(records) ==
  /\ Len(records) = 3
  /\ IsRead(records[1]) /\ IsRead(records[3])
  /\ "BLOCK_EXIT" \in records[2].flags
  /\ Tids(records[1]) = Tids(records[3])
  /\ Tids(records[1]) \subseteq Tids(records[2])
  /\ records[1].address = records[3].address
  /\ records[1].value = records[3].value

\* the record reaches the BLOCK_EXIT branch of the record loop
ReachesBlockExit(record) ==
  record.size # 0 /\ "BLOCK_ENTER" \notin record.flags /\ "BLOCK_EXIT" \in record.flags

\* the number of units the record's access is split into
NumUnits(record) ==
  LET access_type == AccessTypeOf(record, EmptyMap, 0) IN
  access_type.vec_size \div access_type.unit_size

\* C15: a BLOCK_EXIT record that the record loop processes (not empty, not a
\* BLOCK_ENTER) erases the ThreadIds of its active lanes from both temporal
\* traces and changes nothing else; a read, such a BLOCK_EXIT for that thread
\* and a read of the same address and value, by a thread without earlier
\* history, add no temporal pair
C15_BlockExitClearsHistory ==
  [][last'.op = "analyze" /\ last'.processed =>
       /\ (Len(last'.records) = 1 /\ ReachesBlockExit(last'.records[1])) =>
            ErasedExactly(last'.records[1])
       /\ (/\ ExitBetweenReads(last'.records)
           /\ ReachesBlockExit(last'.records[2])
           /\ "TEMPORAL" \in analysis_enabled
           /\ Tids(last'.records[1]) \cap DOMAIN KernelBefore.read_temporal_trace = {}) =>
            KernelAfter.read_pc_pairs = KernelBefore.read_pc_pairs
    ]_vars

\* what the code keeps of C15: the erase, and the scenario for reads of one
\* unit (a read of several units pairs with itself, see C27)
C15_ProcessedBlockExitClearsHistory ==
  [][last'.op = "analyze" /\ last'.processed =>
       /\ (Len(last'.records) = 1 /\ ReachesBlockExit(last'.records[1])) =>
            ErasedExactly(last'.records[1])
       /\ (/\ ExitBetweenReads(last'.records)
           /\ ReachesBlockExit(last'.records[2])
           /\ NumUnits(last'.records[1]) = 1 /\ NumUnits(last'.records[3]) = 1
           /\ "TEMPORAL" \in analysis_enabled
           /\ Tids(last'.records[1]) \cap DOMAIN KernelBefore.read_temporal_trace = {}) =>
            KernelAfter.read_pc_pairs = KernelBefore.read_pc_pairs
    ]_vars

\* a read at pc 1, a BLOCK_EXIT of lane 0 and a read at pc 2 were analyzed
\* with temporal analysis enabled: the kernel holds no pair, lane 0's history
\* is the read at pc 2, and lane 1's history is still there
C15_Witness ==
  /\ last.op = "analyze" /\ last.processed
  /\ ExitBetweenReads(last.records)
  /\ ReachesBlockExit(last.records[2])
  /\ NumUnits(last.records[1]) = 1
  /\ "TEMPORAL" \in analysis_enabled
  /\ LastKernel.read_pc_pairs = EmptyMap
  /\ DOMAIN LastKernel.read_temporal_trace = {<<0, 0>>, <<0, 1>>}
  /\ LastKernel.read_temporal_trace[<<0, 0>>][1][1] = 2

\* a record that reaches the lane loop
IsAccess(record) ==
  record.size # 0 /\ (record.flags \cap {"BLOCK_ENTER", "BLOCK_EXIT"}) = {}

\* lane j of the record was accepted by the analyze step (its memory_op_id resolved)
AcceptedLane(record, j) ==
  \E a \in last'.accepted : a.address = record.address[j] /\ a.flags = record.flags

\* the unit touches <<record index, lane, unit>> of the buffer of the analyze step
Touches ==
  {e \in (1 .. Len(last'.records)) \X (0 .. 1) \X (0 .. 1) :
     /\ IsAccess(last'.records[e[1]])
     /\ e[2] \in last'.records[e[1]].active
     /\ e[3] < NumUnits(last'.records[e[1]])
     /\ AcceptedLane(last'.records[e[1]], e[2])}

TouchBefore(f, e) ==
  \/ f[1] < e[1]
  \/ f[1] = e[1] /\ f[2] < e[2]
  \/ f[1] = e[1] /\ f[2] = e[2] /\ f[3] < e[3]

TouchTid(e) ==
  <<last'.records[e[1]].flat_block_id,
    (last'.records[e[1]].flat_thread_id \div 32) * 32 + e[2]>>

TouchAddr(e) == last'.records[e[1]].address[e[2]]
TouchReads(e) == "READ" \in last'.records[e[1]].flags

\* a BLOCK_EXIT of the thread is processed after record `from` and before record `to`
ExitBetween(tid, from, to) ==
  \E x \in (from + 1) .. (to - 1) :
     ReachesBlockExit(last'.records[x]) /\ tid \in Tids(last'.records[x])

\* the earlier touches of the same address by the same thread in the same
\* direction, with no BLOCK_EXIT of the thread in between
EarlierTouches(touches, e) ==
  {f \in touches :
     /\ TouchBefore(f, e)
     /\ TouchTid(f) = TouchTid(e) /\ TouchAddr(f) = TouchAddr(e)
     /\ TouchReads(f) = TouchReads(e)
     /\ ~ExitBetween(TouchTid(e), f[1], e[1])}

TraceBefore(e) ==
  IF TouchReads(e) THEN KernelBefore.read_temporal_trace
  ELSE KernelBefore.write_temporal_trace

\* the pc of the touch that precedes e, -1 when e is the thread's first touch
\* of the address since its last BLOCK_EXIT
PrevPc(touches, e) ==
  LET earlier == EarlierTouches(touches, e) IN
  IF earlier # {}
  THEN LET f == CHOOSE f \in earlier : \A g \in earlier : g = f \/ TouchBefore(g, f)
       IN last'.records[f[1]].pc
  ELSE IF /\ ~ExitBetween(TouchTid(e), 0, e[1])
          /\ TouchTid(e) \in DOMAIN TraceBefore(e)
          /\ TouchAddr(e) \in DOMAIN TraceBefore(e)[TouchTid(e)]
  THEN TraceBefore(e)[TouchTid(e)][TouchAddr(e)][1]
  ELSE -1

\* the count pc_pairs holds under (p, q)
PairCount(pc_pairs, p, q) ==
  SumCounts([k \in {x \in DOMAIN pc_pairs : x[1] = p /\ x[2] = q} |-> pc_pairs[k]])

\* the step added one pair per consecutive touch, under (previous pc, current pc)
PairsFollowTouches ==
  LET touches == Touches
      prev == [e \in touches |-> PrevPc(touches, e)]
      before == KernelBefore
      after == KernelAfter
      consecutive(reads, p, q) ==
        Cardinality({e \in touches :
                       TouchReads(e) = reads /\ prev[e] = p /\ last'.records[e[1]].pc = q})
  IN \A p \in 0 .. MaxPc, q \in 0 .. MaxPc :
        /\ PairCount(after.read_pc_pairs, p, q)
             = PairCount(before.read_pc_pairs, p, q) + consecutive(TRUE, p, q)
        /\ PairCount(after.write_pc_pairs, p, q)
             = PairCount(before.write_pc_pairs, p, q) + consecutive(FALSE, p, q)

\* two reads of one address by the same thread, at pc p1 then pc p2
TwoReads(records) ==
  /\ Len(records) = 2
  /\ IsRead(records[1]) /\ IsRead(records[2])
  /\ Cardinality(Tids(records[1])) = 1
  /\ Tids(records[1]) = Tids(records[2])
  /\ records[1].address = records[2].address

\* the step added exactly the pair (p1, p2) with count 1
OnePairAdded(records) ==
  /\ SumCounts(KernelAfter.read_pc_pairs) = SumCounts(KernelBefore.read_pc_pairs) + 1
  /\ PairCount(KernelAfter.read_pc_pairs, records[1].pc, records[2].pc)
       = PairCount(KernelBefore.read_pc_pairs, records[1].pc, records[2].pc) + 1

\* C16: with temporal analysis enabled every analyze adds to
\* pc_pairs one count per consecutive touch of an address by a thread, under
\* (previous pc, current pc), and two accepted records of one thread on one
\* address at p1 then p2, the thread having no history, add exactly the pair
\* (p1, p2) with count 1
C16_TwoRecordsYieldOnePair ==
  [][last'.op = "analyze" /\ last'.processed /\ "TEMPORAL" \in analysis_enabled =>
       /\ PairsFollowTouches
       /\ (/\ TwoReads(last'.records)
           /\ \A j \in last'.records[1].active : AcceptedLane(last'.records[1], j)
           /\ Tids(last'.records[1]) \cap DOMAIN KernelBefore.read_temporal_trace = {}) =>
            OnePairAdded(last'.records)
    ]_vars

\* what the code keeps of C16: the pair count follows the unit touches (a
\* record touches its address once per unit of the access, see C27), and two
\* accepted one-unit records of one thread on one address at p1 then p2, the
\* thread having no history, add exactly the pair (p1, p2) with count 1
C16_PairsCountUnitTouches ==
  [][last'.op = "analyze" /\ last'.processed /\ "TEMPORAL" \in analysis_enabled =>
       /\ PairsFollowTouches
       /\ (/\ TwoReads(last'.records)
           /\ NumUnits(last'.records[1]) = 1 /\ NumUnits(last'.records[2]) = 1
           /\ \A j \in last'.records[1].active : AcceptedLane(last'.records[1], j)
           /\ Tids(last'.records[1]) \cap DOMAIN KernelBefore.read_temporal_trace = {}) =>
            OnePairAdded(last'.records)
    ]_vars

\* two one-unit reads of lane 0 at pcs 1 and 2 were analyzed with temporal
\* analysis enabled and the kernel holds the pair (1, 2) once
C16_Witness ==
  /\ last.op = "analyze" /\ last.processed
  /\ "TEMPORAL" \in analysis_enabled
  /\ TwoReads(last.records)
  /\ NumUnits(last.records[1]) = 1 /\ NumUnits(last.records[2]) = 1
  /\ last.accepted # {}
  /\ DOMAIN LastKernel.read_pc_pairs = {<<1, 2, 1, "FLOAT">>}
  /\ LastKernel.read_pc_pairs[<<1, 2, 1, "FLOAT">>] = 1

\* C17: with spatial analysis enabled every analyze adds to the read (resp.
\* write) spatial trace of the kernel exactly one count per accepted read
\* (resp. write) unit access: per active lane whose memory_op_id resolved,
\* per unit of the access; the trace starts empty, so its sum is the number
\* of accepted unit accesses
C17_SpatialCountsAcceptedUnits ==
  [][last'.op = "analyze" /\ last'.processed /\ "SPATIAL" \in analysis_enabled =>
       LET touches == Touches IN
       /\ SumCounts(KernelAfter.read_spatial_trace)
            = SumCounts(KernelBefore.read_spatial_trace)
              + Cardinality({e \in touches : TouchReads(e)})
       /\ SumCounts(KernelAfter.write_spatial_trace)
            = SumCounts(KernelBefore.write_spatial_trace)
              + Cardinality({e \in touches : ~TouchReads(e)})
    ]_vars

\* a two-unit read of an address inside the range was analyzed with spatial
\* analysis enabled and the read spatial trace holds its two unit accesses
C17_Witness ==
  /\ last.op = "analyze" /\ last.processed
  /\ "SPATIAL" \in analysis_enabled
  /\ Len(last.records) = 1 /\ IsRead(last.records[1])
  /\ NumUnits(last.records[1]) = 2
  /\ last.accepted # {}
  /\ SumCounts(LastKernel.read_spatial_trace) = 2
  /\ SumCounts(LastKernel.write_spatial_trace) = 0

\* the memory_op_id the last analyze attributed lane j of the record to, as a
\* set: empty when the lane was dropped
AttributedTo(record, j) ==
  {acc.memory_op_id : acc \in {a \in last.accepted :
                                 a.address = record.address[j] /\ a.flags = record.flags}}

\* C18: a lane whose address lies in no range of the applicable snapshot is
\* attributed to LOCAL (2) when the record carries the local flag, else to
\* SHARED (1) when it carries the shared flag, else it is dropped; a lane
\* whose address lies in a range is attributed to that range whatever the
\* flags (stated for snapshots without a range registered at host op 0, whose
\* memory_op_id is the value the lookup uses for "not found")
C18_UnfoundAddressFallsBackToFlags ==
  (/\ last.op = "analyze" /\ last.processed
   /\ \A m \in BaseMap(memory_snapshot, last.host_op_id) : m.memory_op_id # 0) =>
    \A i \in DOMAIN last.records : \A j \in last.records[i].active :
      LET record == last.records[i]
          containing == {m \in BaseMap(memory_snapshot, last.host_op_id) :
                           Covers(m, record.address[j])}
      IN IF containing # {}
         THEN AttributedTo(record, j) \subseteq {m.memory_op_id : m \in containing}
              /\ AttributedTo(record, j) # {}
         ELSE IF "LOCAL" \in record.flags
         THEN AttributedTo(record, j) = {MEMORY_ID_LOCAL}
         ELSE IF "SHARED" \in record.flags
         THEN AttributedTo(record, j) = {MEMORY_ID_SHARED}
         ELSE AttributedTo(record, j) = {}

\* every count of `before` is still there in `after`, and not smaller
CountsKept(before, after) ==
  \A key \in DOMAIN before : key \in DOMAIN after /\ after[key] >= before[key]

C20_CanonicalizationIdempotent ==
  last.op = "store2basictype" =>
    /\ store2basictype(last.result, last.kind, decimal_degree_f32, decimal_degree_f64)
         = last.result
    /\ last.kind.type \in {"INTEGER", "UNKNOWN"} => last.result = last.value

\* a 32-bit float with low mantissa bits set was canonicalized at level MAX
\* and lost them
C20_Witness ==
  /\ last.op = "store2basictype"
  /\ last.kind.type = "FLOAT" /\ last.kind.unit_size = 32
  /\ decimal_degree_f32 = 8
  /\ last.value = 2 ^ 15 + 1
  /\ last.result = 2 ^ 15

\* C21: no range of any snapshot carries a reserved memory_op_id: 0 (the
\* lookup's "unmatched"), MEMORY_ID_SHARED or MEMORY_ID_LOCAL
C21_MemoryOpIdNeverReserved ==
  \A k \in DOMAIN memory_snapshot : \A m \in memory_snapshot[k] :
    m.memory_op_id \notin {0, MEMORY_ID_SHARED, MEMORY_ID_LOCAL}

\* the access kind trace_analyze used for a record of the last analyze
UsedAccessKind(record) ==
  LET cubin == cubin_map[last.cubin_id] IN
  AccessTypeOf(record, cubin.inst_graph, transform_pc(cubin.symbols, record.pc).cubin_offset)

\* C22: every access kind the last analyze split a record with has
\* unit_size <= vec_size, so every accepted lane access has at least one unit
C22_UnitSizeAtMostVecSize ==
  last.op = "analyze" /\ last.processed /\ last.result # "EXCEPTION" =>
    \A i \in DOMAIN last.records :
      IsAccess(last.records[i]) =>
        /\ UsedAccessKind(last.records[i]).unit_size <= UsedAccessKind(last.records[i]).vec_size
        /\ UsedAccessKind(last.records[i]).vec_size
             \div UsedAccessKind(last.records[i]).unit_size >= 1

\* C23: no analyze ends with an exception leaving the call, whatever the
\* records' pcs, addresses and access kinds
C23_NoExceptionLeavesAnalyze ==
  last.op = "analyze" => last.result # "EXCEPTION"

\* C24: a memory_register or memory_unregister keeps every published
\* snapshot as it is: each key of the history is still there afterwards with
\* the same MemoryMap
C24_PublishedSnapshotImmutable ==
  [][last'.op \in {"memory_register", "memory_unregister"} =>
       \A k \in DOMAIN memory_snapshot :
          k \in DOMAIN memory_snapshot' /\ memory_snapshot'[k] = memory_snapshot[k]
    ]_vars

\* C25: the snapshot an in-flight analyze selected is in the history for as
\* long as the analyze reads it
C25_BorrowedSnapshotStaysInHistory ==
  \A t \in Threads :
    in_flight[t].at = "loop" => in_flight[t].snapshot_key \in DOMAIN memory_snapshot

\* C26: a flush leaves the cubin registry as it is: the active map and the
\* cache hold the same cubins before and after
C26_FlushKeepsCubinRegistry ==
  [][last'.op = "flush" =>
       cubin_map' = cubin_map /\ cubin_cache_map' = cubin_cache_map]_vars

\* C27: a record whose threads have no temporal history in the kernel is
\* their first access to the address and adds no pair, whatever the number
\* of units it is split into
C27_FirstAccessAddsNoPair ==
  [][(/\ last'.op = "analyze" /\ last'.processed
      /\ "TEMPORAL" \in analysis_enabled
      /\ Len(last'.records) = 1 /\ IsAccess(last'.records[1])
      /\ Tids(last'.records[1]) \cap DOMAIN KernelBefore.read_temporal_trace = {}
      /\ Tids(last'.records[1]) \cap DOMAIN KernelBefore.write_temporal_trace = {}) =>
       /\ KernelAfter.read_pc_pairs = KernelBefore.read_pc_pairs
       /\ KernelAfter.write_pc_pairs = KernelBefore.write_pc_pairs
    ]_vars


\* C28: an analyze of a cubin that is in the cache, called with the log
\* callback registered and a snapshot at or below its host op, returns SUCCESS
\* with the cubin active, whatever the calls of other CPU threads it
\* interleaves with; it fails neither with DUPLICATE_ENTRY nor with
\* NOT_EXIST_ENTRY
C28_ConcurrentPromotionSucceeds ==
  (/\ last.op = "analyze"
   /\ last.cubin_id \in DOMAIN cubin_cache_map
   /\ log_data_callback
   /\ SnapshotKeysAtOrBelow(memory_snapshot, last.host_op_id) # {}) =>
     /\ last.result = "SUCCESS"
     /\ last.cubin_id \in DOMAIN cubin_map


\* C29: an analyze that returns an error code (anything but SUCCESS) leaves
\* kernel_map, and with it every accumulator of every kernel, as it was
\* before the call
C29_FailedAnalyzeChangesNothing ==
  [][(/\ last'.op = "analyze"
      /\ last'.result \notin {"SUCCESS", "EXCEPTION"}) =>
       kernel_map' = kernel_map
    ]_vars


\* C30: after a successful memory_register(start,end,H,id) every snapshot
\* with a key at or above H holds the range [start,end), in whatever order of
\* host_op_ids the calls arrive
C30_RegisteredRangeInLaterSnapshots ==
  [][last'.op = "memory_register" /\ last'.result = "SUCCESS" =>
       \A r \in Ranges, h \in HostOps, id \in MemoryIds :
         MemoryRegister(r[1], r[2], h, id) =>
           \A k \in DOMAIN memory_snapshot' :
             k >= h => \E m \in memory_snapshot'[k] : m.start = r[1] /\ m.end = r[2]
    ]_vars


====
